---- MODULE Spec2Model ----
(***************************************************************************)
(* Model of shootsh: the SSH session supervisor (crates/shootsh_ssh) and   *)
(* the per-session scene controller (crates/shootsh_core).                 *)
(*                                                                         *)
(* Two specifications share this module:                                   *)
(*   SpecSessions / FairSessions  - connections, the session registry      *)
(*       (active_sessions), eviction, render-loop tasks, DropGuard and     *)
(*       the shutdown broadcast;                                           *)
(*   SpecApp - one session's App (update_state and its handlers), the      *)
(*       bounded request queue to the persistence worker and the reply     *)
(*       tasks spawned by Handler::data.                                   *)
(***************************************************************************)
EXTENDS Integers, Sequences, FiniteSets, TLC

\* ------------------------------------------------------------------ bounds
\* Number of concurrent connections modelled.
NumConns == 2
\* Number of distinct public-key fingerprints.
NumFps == 2

\* Capacity of the request queue to the persistence worker as modelled (the
\* program creates it with mpsc::channel(100)).
QueueCap == 1
\* Number of single-use reply channels a session may hold at once.
MaxReq == 2
\* Largest hit count of a round.
MaxHits == 1
\* Largest number of characters typed into the name input.
MaxTyped == 1
\* Granularity of the passage of time, in milliseconds.
TimeStepMs == 7500
\* hits of one round, and clock step, where the pointer trace is followed
MaxRoundHits == 2
RoundStepMs == 1000
\* samples the trace is followed up to (it is let grow past its capacity)
MaxTraceLen == 52
\* samples the trace is followed up to where pointer positions are followed
MaxPointerTrace == 3
\* users the Repository is told to keep (max_users)
MaxUsers == 2
\* requests put on the worker's channel
MaxStoreReqs == 3
\* days that pass while the worker is followed
MaxWorkerDay == 1
\* rounds of one user persisted, and days over which they are spread
MaxRounds == 3
MaxDay == 8
\* samples of a trace given to the validator
MaxSamples == 4
\* clock ticks in a millisecond: the resolution of the validator's Instants
TicksPerMs == 2
\* hits applied to the CombatStats studied on its own
MaxCombatHits == 12
\* hit counts for which the target lifetime is computed
MaxLifetimeHits == 150

\* ------------------------------------------------------- program constants
MAX_PLAYER_NAME_LEN == 15
PLAYING_TIME_SEC == 15
BASE_HIT_VALUE == 100
\* COMBO_MULTIPLIER_STEP, INITIAL_MULTIPLIER and MAX_MULTIPLIER in tenths.
COMBO_MULTIPLIER_STEP_X10 == 2
INITIAL_MULTIPLIER_X10 == 10
MAX_MULTIPLIER_X10 == 30
\* DECAY_RATE in hundredths.
DECAY_RATE_X100 == 95
MAX_TARGET_LIFETIME_MS == 2000
\* handle_click: the GameOver click cooldown.
GAME_OVER_COOLDOWN_MS == 500
\* handle_tick: how long the cheat warning stays.
CHEAT_WARNING_SEC == 2
\* app.rs, handle_mouse_move: capacity of mouse_history
MOUSE_HISTORY_CAP == 50
\* anticheat.rs, AntiCheatConfig::default: min_reaction_time
ANALYZER_MIN_REACTION_MS == 100
\* db.rs: the lists of get_current_cache hold 10 entries at most; a week
\* of strftime('%Y-%W') has 7 days; the name create_user is given, and the
\* fingerprint of the console user (shootsh_cli main.rs)
RANKING_LIMIT == 10
DAYS_PER_WEEK == 7
DEFAULT_NAME == "NewPlayer"
LOCAL_USER == "local"
\* validator.rs, AntiCheatConfig::default: min_reaction_time,
\* max_pixels_per_ms and min_variance (0.001, held as its inverse)
MIN_REACTION_TIME_MS == 100
MAX_PIXELS_PER_MS == 6
MIN_VARIANCE_INV == 1000

Conns == 1..NumConns
FPs == 1..NumFps
\* Option::None for a fingerprint / a registry slot / a displaced session.
NoKey == 0
NoSession == 0

VARIABLES
    \* ---- supervisor state (server.rs)
    fingerprint,      \* ClientHandler.fingerprint : Option<String>
    pc,               \* position of each connection's handler / render task
    active_sessions,  \* MyServer.active_sessions : fingerprint -> SessionInfo
    old_session,      \* the displaced SessionInfo held by kick_existing_session
    has_app,          \* ClientHandler.app.is_some()
    cleanup_sent,     \* number of CLEANUP_SEQ payloads sent on the handle
    close_sent,       \* number of close() calls made on the handle
    shutdown,         \* cleanup_all_sessions has drained the registry
    shut_pc,          \* position of each shutdown cleanup task
    \* ---- one session's App and its surroundings (app.rs, server.rs)
    app,              \* the App behind ClientHandler.app
    db_queue,         \* requests in the bounded channel behind db_tx
    reply,            \* state of each oneshot reply channel of the session
    loop_running,     \* the session's render loop has not left its loop
    last_mouse_buttons, \* InputTransformer.last_mouse_buttons has LEFT
    save_game_sent,  \* outcome of the latest try_send of SaveGame
    \* ---- the pointer trace of the session's round (app.rs)
    mouse_history,    \* PlayingState.mouse_history
    mouse_pos,        \* App.mouse_pos
    target,           \* PlayingState.target
    \* ---- values handed to the pure functions (domain.rs, validator.rs)
    combat_stats,     \* a CombatStats
    history,          \* the &[MouseTrace] given to is_legit_interaction
    spawn_time,       \* its spawn_time
    click_pos,        \* its click_pos
    is_legit,         \* what the call on these arguments returned: <<>> before
                      \* the call, <<b>> after it
    \* ---- the persistence worker and its store (db.rs, shootsh_cli main.rs)
    repo,             \* the tables behind Repository.conn
    today,            \* the day that DATE('now') gives
    cache,            \* the DbCache behind the shared ArcSwap
    worker,           \* the worker thread: its position and its request
    db_cache,         \* App.db_cache of a session: the snapshot it loaded
    requests_sent,    \* number of requests ever put on the channel
    \* ---- the wake sources of the session's render loop (server.rs)
    update_rx,        \* signals waiting on the session's update channel
    interval_ready,   \* the loop's 33 ms interval has a tick due
    last_wake         \* the branch of select! that completed last

sess_vars == <<fingerprint, pc, active_sessions, old_session, has_app,
               cleanup_sent, close_sent, shutdown, shut_pc>>

app_vars == <<app, db_queue, reply, loop_running,
              last_mouse_buttons, save_game_sent>>

trace_vars == <<mouse_history, mouse_pos, target>>

call_vars == <<combat_stats, history, spawn_time, click_pos, is_legit>>

store_vars == <<repo, today, cache, worker, db_cache, requests_sent>>

loop_vars == <<update_rx, interval_ready, last_wake>>

vars == <<sess_vars, app_vars, trace_vars, call_vars, store_vars, loop_vars>>

\* ------------------------------------------------------------ supervisor
\* Server::new_client: a fresh handler has no fingerprint, no app.
InitSessions ==
    /\ fingerprint = [c \in Conns |-> NoKey]
    /\ pc = [c \in Conns |-> "new"]
    /\ active_sessions = [f \in FPs |-> NoSession]
    /\ old_session = [c \in Conns |-> NoSession]
    /\ has_app = [c \in Conns |-> FALSE]
    /\ cleanup_sent = [c \in Conns |-> 0]
    /\ close_sent = [c \in Conns |-> 0]
    /\ shutdown = FALSE
    /\ shut_pc = [c \in Conns |-> "none"]

\* Handler::auth_publickey: records the key's fingerprint and accepts.
auth_publickey(c, fp) ==
    /\ pc[c] = "new"
    /\ fingerprint' = [fingerprint EXCEPT ![c] = fp]
    /\ pc' = [pc EXCEPT ![c] = "authed"]
    /\ UNCHANGED <<active_sessions, old_session, has_app, cleanup_sent,
                   close_sent, shutdown, shut_pc,
                   app_vars, trace_vars, call_vars, store_vars, loop_vars>>

\* Handler::auth_password: accepts without recording any fingerprint.
auth_password(c) ==
    /\ pc[c] = "new"
    /\ pc' = [pc EXCEPT ![c] = "authed"]
    /\ UNCHANGED <<fingerprint, active_sessions, old_session, has_app,
                   cleanup_sent, close_sent, shutdown, shut_pc,
                   app_vars, trace_vars, call_vars, store_vars, loop_vars>>

\* Mutant of shell_request_no_key: the rejection forgets session.close.
shell_request_no_key_noclose(c) ==
    /\ pc[c] = "authed"
    /\ fingerprint[c] = NoKey
    /\ pc' = [pc EXCEPT ![c] = "rejected"]
    /\ UNCHANGED <<fingerprint, active_sessions, old_session, has_app,
                   cleanup_sent, close_sent, shutdown, shut_pc,
                   app_vars, trace_vars, call_vars, store_vars, loop_vars>>

\* Handler::shell_request, the None arm: message, channel_success, close,
\* return Ok. The close is issued on the session itself (session.close).
shell_request_no_key(c) ==
    /\ pc[c] = "authed"
    /\ fingerprint[c] = NoKey
    /\ pc' = [pc EXCEPT ![c] = "rejected"]
    /\ close_sent' = [close_sent EXCEPT ![c] = @ + 1]
    /\ UNCHANGED <<fingerprint, active_sessions, old_session, has_app,
                   cleanup_sent, shutdown, shut_pc,
                   app_vars, trace_vars, call_vars, store_vars, loop_vars>>

\* HashMap::insert under the registry mutex: the new map.
registry_insert(sessions, fp, c) == [sessions EXCEPT ![fp] = c]

\* ClientHandler::kick_existing_session, the critical section: insert this
\* connection's SessionInfo and take the displaced one.
kick_insert(c) ==
    /\ pc[c] = "authed"
    /\ fingerprint[c] # NoKey
    /\ LET fp == fingerprint[c]
           old == active_sessions[fp]
       IN /\ active_sessions' = registry_insert(active_sessions, fp, c)
          /\ old_session' = [old_session EXCEPT ![c] = old]
          /\ pc' = [pc EXCEPT ![c] = IF old # NoSession THEN "kick_data"
                                     ELSE "fetching"]
    /\ UNCHANGED <<fingerprint, has_app, cleanup_sent, close_sent,
                   shutdown, shut_pc,
                   app_vars, trace_vars, call_vars, store_vars, loop_vars>>

\* kick_existing_session: old_session.handle.data(.., CLEANUP_SEQ).await
kick_data(c) ==
    /\ pc[c] = "kick_data"
    /\ cleanup_sent' = [cleanup_sent EXCEPT ![old_session[c]] = @ + 1]
    /\ pc' = [pc EXCEPT ![c] = "kick_close"]
    /\ UNCHANGED <<fingerprint, active_sessions, old_session, has_app,
                   close_sent, shutdown, shut_pc,
                   app_vars, trace_vars, call_vars, store_vars, loop_vars>>

\* kick_existing_session: old_session.handle.close(..).await
kick_close(c) ==
    /\ pc[c] = "kick_close"
    /\ close_sent' = [close_sent EXCEPT ![old_session[c]] = @ + 1]
    /\ pc' = [pc EXCEPT ![c] = "fetching"]
    /\ UNCHANGED <<fingerprint, active_sessions, old_session, has_app,
                   cleanup_sent, shutdown, shut_pc,
                   app_vars, trace_vars, call_vars, store_vars, loop_vars>>

\* shell_request after fetch_user_context returned Ok: the second, plain
\* insert into the registry (its return value is dropped), App::new,
\* channel_success, SETUP_SEQ and run_render_loop (the task with DropGuard).
shell_request_start(c) ==
    /\ pc[c] = "fetching"
    /\ active_sessions' = registry_insert(active_sessions, fingerprint[c], c)
    /\ has_app' = [has_app EXCEPT ![c] = TRUE]
    /\ pc' = [pc EXCEPT ![c] = "running"]
    /\ UNCHANGED <<fingerprint, old_session, cleanup_sent, close_sent,
                   shutdown, shut_pc,
                   app_vars, trace_vars, call_vars, store_vars, loop_vars>>

\* shell_request when fetch_user_context fails (send error, 2 s timeout or
\* reply channel dropped): the `?` returns the error, nothing else runs.
shell_request_fetch_failed(c) ==
    /\ pc[c] = "fetching"
    /\ pc' = [pc EXCEPT ![c] = "failed"]
    /\ UNCHANGED <<fingerprint, active_sessions, old_session, has_app,
                   cleanup_sent, close_sent, shutdown, shut_pc,
                   app_vars, trace_vars, call_vars, store_vars, loop_vars>>

\* The ways run_render_loop's loop ends: rx.recv() returned None, the data
\* send failed, or should_quit was set.
ExitReasons == {"rx_closed", "send_error", "quit"}

\* run_render_loop: the loop breaks; the task's scope ends and DropGuard::drop
\* spawns the cleanup task.
render_loop_exit(c, why) ==
    /\ pc[c] = "running"
    /\ why \in ExitReasons
    /\ pc' = [pc EXCEPT ![c] = "guard_data"]
    /\ UNCHANGED <<fingerprint, active_sessions, old_session, has_app,
                   cleanup_sent, close_sent, shutdown, shut_pc,
                   app_vars, trace_vars, call_vars, store_vars, loop_vars>>

\* DropGuard's spawned task: h.data(c, CLEANUP_SEQ).await
guard_data(c) ==
    /\ pc[c] = "guard_data"
    /\ cleanup_sent' = [cleanup_sent EXCEPT ![c] = @ + 1]
    /\ pc' = [pc EXCEPT ![c] = "guard_close"]
    /\ UNCHANGED <<fingerprint, active_sessions, old_session, has_app,
                   close_sent, shutdown, shut_pc,
                   app_vars, trace_vars, call_vars, store_vars, loop_vars>>

\* DropGuard's spawned task: h.close(c).await
guard_close(c) ==
    /\ pc[c] = "guard_close"
    /\ close_sent' = [close_sent EXCEPT ![c] = @ + 1]
    /\ pc' = [pc EXCEPT ![c] = "finished"]
    /\ UNCHANGED <<fingerprint, active_sessions, old_session, has_app,
                   cleanup_sent, shutdown, shut_pc,
                   app_vars, trace_vars, call_vars, store_vars, loop_vars>>

\* Mutant of drained_list: the broadcast skips the first fingerprint's entry.
drained_list_skip_first(sessions) ==
    {sessions[f] : f \in DOMAIN sessions \ {1}} \ {NoSession}

\* sessions.drain().collect(): the sessions taken out of the registry.
drained_list(sessions) == {sessions[f] : f \in DOMAIN sessions} \ {NoSession}

\* The registry left behind by drain().
drained_registry(sessions) == [f \in DOMAIN sessions |-> NoSession]

\* MyServer::cleanup_all_sessions, the critical section: drain the registry
\* into session_list and release the lock; one cleanup task per entry.
cleanup_all_sessions ==
    /\ ~shutdown
    /\ shutdown' = TRUE
    /\ shut_pc' = [c \in Conns |->
                     IF c \in drained_list(active_sessions) THEN "data"
                     ELSE shut_pc[c]]
    /\ active_sessions' = drained_registry(active_sessions)
    /\ UNCHANGED <<fingerprint, pc, old_session, has_app, cleanup_sent,
                   close_sent,
                   app_vars, trace_vars, call_vars, store_vars, loop_vars>>

\* cleanup task: info.handle.data(.., CLEANUP_SEQ + shutdown message).await
shutdown_data(c) ==
    /\ shut_pc[c] = "data"
    /\ cleanup_sent' = [cleanup_sent EXCEPT ![c] = @ + 1]
    /\ shut_pc' = [shut_pc EXCEPT ![c] = "eof"]
    /\ UNCHANGED <<fingerprint, pc, active_sessions, old_session, has_app,
                   close_sent, shutdown,
                   app_vars, trace_vars, call_vars, store_vars, loop_vars>>

\* cleanup task: info.handle.eof(..).await
shutdown_eof(c) ==
    /\ shut_pc[c] = "eof"
    /\ shut_pc' = [shut_pc EXCEPT ![c] = "close"]
    /\ UNCHANGED <<fingerprint, pc, active_sessions, old_session, has_app,
                   cleanup_sent, close_sent, shutdown,
                   app_vars, trace_vars, call_vars, store_vars, loop_vars>>

\* cleanup task: info.handle.close(..).await
shutdown_close(c) ==
    /\ shut_pc[c] = "close"
    /\ close_sent' = [close_sent EXCEPT ![c] = @ + 1]
    /\ shut_pc' = [shut_pc EXCEPT ![c] = "done"]
    /\ UNCHANGED <<fingerprint, pc, active_sessions, old_session, has_app,
                   cleanup_sent, shutdown,
                   app_vars, trace_vars, call_vars, store_vars, loop_vars>>

ShutdownStep(c) == shutdown_data(c) \/ shutdown_eof(c) \/ shutdown_close(c)

NextSessions ==
    \/ \E c \in Conns, fp \in FPs : auth_publickey(c, fp)
    \/ \E c \in Conns : auth_password(c)
    \/ \E c \in Conns : shell_request_no_key(c)
    \/ \E c \in Conns : kick_insert(c)
    \/ \E c \in Conns : kick_data(c)
    \/ \E c \in Conns : kick_close(c)
    \/ \E c \in Conns : shell_request_start(c)
    \/ \E c \in Conns : shell_request_fetch_failed(c)
    \/ \E c \in Conns, why \in ExitReasons : render_loop_exit(c, why)
    \/ \E c \in Conns : guard_data(c)
    \/ \E c \in Conns : guard_close(c)
    \/ cleanup_all_sessions
    \/ \E c \in Conns : shutdown_data(c)
    \/ \E c \in Conns : shutdown_eof(c)
    \/ \E c \in Conns : shutdown_close(c)

\* ------------------------------------------------------------ domain.rs
Min(a, b) == IF a < b THEN a ELSE b

RECURSIVE Pow(_, _)
Pow(b, n) == IF n = 0 THEN 1 ELSE b * Pow(b, n - 1)

\* Exact arithmetic on naturals written as base-10^6 digits, least
\* significant first. The recursions are functions, so that every argument
\* is a value before the next step starts.
DigitBase == 1000000

\* ds times the small factor m, plus carry.
MulDigitsOf[a \in Seq(Nat) \X Nat \X Nat] ==
    LET ds == a[1]
        m == a[2]
        carry == a[3]
        v == Head(ds) * m + carry
    IN IF ds = <<>>
       THEN IF carry = 0 THEN <<>>
            ELSE <<carry % DigitBase>>
                     \o MulDigitsOf[<<<<>>, m, carry \div DigitBase>>]
       ELSE <<v % DigitBase>>
                \o MulDigitsOf[<<Tail(ds), m, v \div DigitBase>>]

MulDigits(ds, m, carry) == MulDigitsOf[<<ds, m, carry>>]

\* ds times m^n, as n multiplications by m split in halves.
MulDigitsTimes[a \in Seq(Nat) \X Nat \X Nat] ==
    LET ds == a[1]
        m == a[2]
        n == a[3]
    IN IF n = 0 THEN ds
       ELSE IF n = 1 THEN MulDigits(ds, m, 0)
       ELSE MulDigitsTimes[<<MulDigitsTimes[<<ds, m, n \div 2>>],
                             m, n - n \div 2>>]

PowDigits(b, n) == MulDigitsTimes[<<<<1>>, b, n>>]

DigitsValueOf[ds \in Seq(Nat)] ==
    IF ds = <<>> THEN 0 ELSE Head(ds) + DigitBase * DigitsValueOf[Tail(ds)]

DigitsValue(ds) == DigitsValueOf[ds]

\* The whole part of the quotient by 100^n, which is
\* DigitBase^(n \div 3) * 100^(n % 3): drop that many digits, then divide
\* what is left.
DivPow100(ds, n) ==
    LET k == n \div 3
        rest == IF k >= Len(ds) THEN <<>> ELSE SubSeq(ds, k + 1, Len(ds))
    IN DigitsValue(rest) \div Pow(100, n % 3)

\* CombatStats::new
NewCombatStats == [score |-> 0, combo |-> 0, hit_count |-> 0, miss_count |-> 0]

\* Mutant of register_hit: the combo is raised after the term is added.
register_hit_late_combo(st) ==
    LET raw_multiplier ==
            INITIAL_MULTIPLIER_X10 + st.combo * COMBO_MULTIPLIER_STEP_X10
        multiplier == Min(raw_multiplier, MAX_MULTIPLIER_X10)
    IN [st EXCEPT !.hit_count = @ + 1,
                  !.combo = @ + 1,
                  !.score = @ + (BASE_HIT_VALUE * multiplier) \div 10]

\* Mutant of register_hit: the multiplier is not capped.
register_hit_uncapped(st) ==
    LET combo == st.combo + 1
        multiplier == INITIAL_MULTIPLIER_X10 + combo * COMBO_MULTIPLIER_STEP_X10
    IN [st EXCEPT !.hit_count = @ + 1,
                  !.combo = combo,
                  !.score = @ + (BASE_HIT_VALUE * multiplier) \div 10]

\* CombatStats::register_hit: count the hit, raise the combo, then add
\* BASE_HIT_VALUE * min(INITIAL_MULTIPLIER + combo * STEP, MAX_MULTIPLIER).
register_hit(st) ==
    LET combo == st.combo + 1
        raw_multiplier == INITIAL_MULTIPLIER_X10 + combo * COMBO_MULTIPLIER_STEP_X10
        multiplier == Min(raw_multiplier, MAX_MULTIPLIER_X10)
    IN [st EXCEPT !.hit_count = @ + 1,
                  !.combo = combo,
                  !.score = @ + (BASE_HIT_VALUE * multiplier) \div 10]

\* Mutant of register_miss: a miss also costs a hit's base value.
register_miss_penalised(st) ==
    [st EXCEPT !.combo = 0,
               !.score = IF @ >= BASE_HIT_VALUE THEN @ - BASE_HIT_VALUE ELSE 0]

\* Mutant of register_miss: a miss also forfeits the score.
register_miss_forfeits_score(st) == [st EXCEPT !.combo = 0, !.score = 0]

\* CombatStats::register_miss: resets the combo, nothing else.
register_miss(st) == [st EXCEPT !.combo = 0]

\* CombatStats::current_score
current_score(st) == st.score

\* Mutant of get_target_lifetime: the decay stops after the first hit.
get_target_lifetime_stalled(st) ==
    IF st.hit_count = 0 THEN MAX_TARGET_LIFETIME_MS
    ELSE (MAX_TARGET_LIFETIME_MS * DECAY_RATE_X100) \div 100

\* CombatStats::get_target_lifetime: MAX_TARGET_LIFETIME_MS * DECAY_RATE^hits,
\* truncated to whole milliseconds.
\* The power is kept exactly, digit by digit, so that large hit counts do
\* not leave the integer range.
get_target_lifetime(st) ==
    LET decay == PowDigits(DECAY_RATE_X100, st.hit_count)
        millis == MulDigits(decay, MAX_TARGET_LIFETIME_MS, 0)
    IN DivPow100(millis, st.hit_count)

\* Target::is_expired: the target's age has reached the lifetime.
is_expired(elapsed, st) == elapsed >= get_target_lifetime(st)

\* --------------------------------------------------------------- app.rs
\* Scene, a tagged union.
NamingScene(input, error, is_loading) ==
    [type |-> "Naming", input |-> input, error |-> error,
     is_loading |-> is_loading]
MenuScene == [type |-> "Menu"]
PlayingScene(stats, last_target_spawn, scene_start) ==
    [type |-> "Playing", combat_stats |-> stats,
     last_target_spawn |-> last_target_spawn, scene_start |-> scene_start]
GameOverScene(final_score, is_new_record) ==
    [type |-> "GameOver", final_score |-> final_score,
     is_new_record |-> is_new_record]
ResetConfirmationScene == [type |-> "ResetConfirmation"]

SceneTypes == {"Naming", "Menu", "Playing", "GameOver", "ResetConfirmation"}

\* Instants are kept as the time elapsed since them, in milliseconds, capped
\* at the largest duration the program compares them with.
RoundMs == PLAYING_TIME_SEC * 1000
WarningMs == CHEAT_WARNING_SEC * 1000

\* Option<Instant>::None for last_cheat_warning; Option<String>::None.
NoWarning == -1
NoError == "none"

\* App::new: Naming when the identity has no name yet, Menu otherwise.
NewApp(has_name, high_score) ==
    [user |-> [has_name |-> has_name, high_score |-> high_score],
     scene |-> IF ~has_name THEN NamingScene(0, NoError, FALSE)
               ELSE MenuScene,
     last_scene_change |-> 0,
     should_quit |-> FALSE,
     last_cheat_warning |-> NoWarning,
     leaderboard_tab |-> "AllTime"]

\* App::input_captured
input_captured(a) == a.scene.type = "Naming"

\* What an update_state arm yields: the new App, the kind of request it
\* handed to try_send ("none" if it made none) and whether it returns a
\* reply receiver.
Ret(a) == [app |-> a, send |-> "none", rx |-> FALSE]

\* App::change_scene
change_scene(a, new_scene) ==
    [a EXCEPT !.scene = new_scene, !.last_scene_change = 0]

\* App::start_game
start_game(a) == change_scene(a, PlayingScene(NewCombatStats, 0, 0))

\* The fields of the DbRequest::SaveGame that end_game sends for these
\* stats.
submitted_stats(stats) ==
    [score |-> current_score(stats), hits |-> stats.hit_count,
     misses |-> stats.miss_count]

\* Mutant of end_game: the round outcome waits for the score submission,
\* the scene changes only when try_send succeeded.
end_game_blocking(a, stats, room) ==
    IF room
    THEN [app |-> change_scene(a, GameOverScene(current_score(stats), FALSE)),
          send |-> "SaveGame", rx |-> FALSE]
    ELSE [app |-> a, send |-> "SaveGame", rx |-> FALSE]

\* Mutant of end_game: a score equal to the high score is a record too.
end_game_record_on_tie(a, stats, room) ==
    LET final_score == current_score(stats)
        is_new_record == final_score >= a.user.high_score
        a1 == IF is_new_record THEN [a EXCEPT !.user.high_score = final_score]
              ELSE a
    IN [app |-> change_scene(a1, GameOverScene(final_score, is_new_record)),
        send |-> "SaveGame", rx |-> FALSE]

\* App::end_game: try_send SaveGame (result dropped), update the in-memory
\* high score and enter GameOver. `room`: try_send would succeed.
end_game(a, stats, room) ==
    LET final_score == current_score(stats)
        is_new_record == final_score > a.user.high_score
        a1 == IF is_new_record THEN [a EXCEPT !.user.high_score = final_score]
              ELSE a
    IN [app |-> change_scene(a1, GameOverScene(final_score, is_new_record)),
        send |-> "SaveGame", rx |-> FALSE]

\* Mutant of handle_tick: the warning is cleared whatever its age.
handle_tick_eager(a, room) ==
    LET a1 == [a EXCEPT !.last_cheat_warning = NoWarning]
        s == a1.scene
    IN IF s.type = "Playing"
       THEN IF s.scene_start >= RoundMs
            THEN end_game(a1, s.combat_stats, room)
            ELSE IF is_expired(s.last_target_spawn, s.combat_stats)
                 THEN Ret([a1 EXCEPT
                              !.scene.combat_stats = register_miss(@),
                              !.scene.last_target_spawn = 0])
                 ELSE Ret(a1)
       ELSE Ret(a1)

\* Mutant of handle_tick: the expiry of the target is looked at before the
\* end of the round.
handle_tick_expiry_first(a, room) ==
    LET a1 == IF a.last_cheat_warning # NoWarning
                 /\ a.last_cheat_warning >= WarningMs
              THEN [a EXCEPT !.last_cheat_warning = NoWarning]
              ELSE a
        s == a1.scene
    IN IF s.type = "Playing"
       THEN IF is_expired(s.last_target_spawn, s.combat_stats)
            THEN Ret([a1 EXCEPT
                         !.scene.combat_stats = register_miss(@),
                         !.scene.last_target_spawn = 0])
            ELSE IF s.scene_start >= RoundMs
                 THEN end_game(a1, s.combat_stats, room)
                 ELSE Ret(a1)
       ELSE Ret(a1)

\* App::handle_tick
handle_tick(a, room) ==
    LET a1 == IF a.last_cheat_warning # NoWarning
                 /\ a.last_cheat_warning >= WarningMs
              THEN [a EXCEPT !.last_cheat_warning = NoWarning]
              ELSE a
        s == a1.scene
    IN IF s.type = "Playing"
       THEN IF s.scene_start >= RoundMs
            THEN end_game(a1, s.combat_stats, room)
            ELSE IF is_expired(s.last_target_spawn, s.combat_stats)
                 THEN Ret([a1 EXCEPT
                              !.scene.combat_stats = register_miss(@),
                              !.scene.last_target_spawn = 0])
                 ELSE Ret(a1)
       ELSE Ret(a1)

\* The Result that handle_click returns: every arm ends in Ok(()).
handle_click_result(a, verdict) == "Ok"

\* The outcome of a click in Playing: outside the target (is_hit false),
\* inside and accepted by the analyzer, inside and rejected by it.
ClickVerdicts == {"miss", "hit", "rejected"}

\* Mutant of handle_click: the cooldown is half as long.
handle_click_half_cooldown(a, verdict) ==
    LET s == a.scene
    IN CASE s.type = "Menu" -> start_game(a)
         [] s.type = "Playing" ->
              CASE verdict = "miss" ->
                     [a EXCEPT !.scene.combat_stats = register_miss(@)]
                [] verdict = "hit" ->
                     [a EXCEPT !.scene.combat_stats = register_hit(@),
                               !.scene.last_target_spawn = 0]
                [] OTHER ->
                     [a EXCEPT !.scene.combat_stats = register_miss(@),
                               !.last_cheat_warning = 0]
         [] s.type = "GameOver" ->
              IF a.last_scene_change >= GAME_OVER_COOLDOWN_MS \div 2
              THEN change_scene(a, MenuScene)
              ELSE a
         [] OTHER -> a

\* App::handle_click
handle_click(a, verdict) ==
    LET s == a.scene
    IN CASE s.type = "Menu" -> start_game(a)
         [] s.type = "Playing" ->
              CASE verdict = "miss" ->
                     [a EXCEPT !.scene.combat_stats = register_miss(@)]
                [] verdict = "hit" ->
                     [a EXCEPT !.scene.combat_stats = register_hit(@),
                               !.scene.last_target_spawn = 0]
                [] OTHER ->
                     [a EXCEPT !.scene.combat_stats = register_miss(@),
                               !.last_cheat_warning = 0]
         [] s.type = "GameOver" ->
              IF a.last_scene_change >= GAME_OVER_COOLDOWN_MS
              THEN change_scene(a, MenuScene)
              ELSE a
         [] OTHER -> a

\* char::is_ascii_alphanumeric over the characters of the model.
is_ascii_alphanumeric(ch) == ch \in {"a", "c", "d", "k", "n", "q", "r", "y"}

\* App::handle_append_char; the input is kept as its character count.
handle_append_char(a, ch) ==
    IF /\ a.scene.type = "Naming"
       /\ ~a.scene.is_loading
       /\ is_ascii_alphanumeric(ch)
       /\ a.scene.input < MAX_PLAYER_NAME_LEN
    THEN [a EXCEPT !.scene.input = @ + 1]
    ELSE a

\* App::handle_delete_char
handle_delete_char(a) ==
    IF a.scene.type = "Naming" /\ ~a.scene.is_loading /\ a.scene.input > 0
    THEN [a EXCEPT !.scene.input = @ - 1]
    ELSE a

\* App::handle_submit_name: in Naming, not loading, with a non-empty name:
\* set is_loading, clear the error, try_send UpdateUsername and return the
\* receiver whatever try_send answered.
handle_submit_name(a, room) ==
    IF a.scene.type = "Naming" /\ ~a.scene.is_loading /\ a.scene.input > 0
    THEN [app |-> [a EXCEPT !.scene.is_loading = TRUE,
                            !.scene.error = NoError],
          send |-> "UpdateUsername", rx |-> TRUE]
    ELSE Ret(a)

\* App::handle_confirm_reset: try_send DeleteUser in whatever scene is
\* current; the receiver is returned only when try_send succeeded.
handle_confirm_reset(a, room) ==
    [app |-> a, send |-> "DeleteUser", rx |-> room]

\* Mutant of handle_request_reset: the scene guard is missing.
handle_request_reset_unguarded(a) == change_scene(a, ResetConfirmationScene)

\* update_state, Action::RequestReset
handle_request_reset(a) ==
    IF a.scene.type = "Menu" THEN change_scene(a, ResetConfirmationScene)
    ELSE a

\* update_state, Action::CancelReset
handle_cancel_reset(a) ==
    IF a.scene.type = "ResetConfirmation" THEN change_scene(a, MenuScene)
    ELSE a

\* update_state, Action::Restart
handle_restart(a) ==
    IF a.scene.type \in {"Playing", "GameOver"} THEN start_game(a) ELSE a

\* LeaderboardTab::prev / next
tab_prev(tab) ==
    CASE tab = "Daily" -> "AllTime" [] tab = "Weekly" -> "Daily"
      [] OTHER -> "Weekly"
tab_next(tab) ==
    CASE tab = "Daily" -> "Weekly" [] tab = "Weekly" -> "AllTime"
      [] OTHER -> "Daily"

\* App::handle_navigate_left / handle_navigate_right
handle_navigate_left(a) ==
    IF a.scene.type \in {"Menu", "GameOver"}
    THEN [a EXCEPT !.leaderboard_tab = tab_prev(@)] ELSE a
handle_navigate_right(a) ==
    IF a.scene.type \in {"Menu", "GameOver"}
    THEN [a EXCEPT !.leaderboard_tab = tab_next(@)] ELSE a

\* An Action value; ch is the character of AppendCharacter.
Act(kind) == [kind |-> kind, ch |-> ""]
NoAction == Act("None")

\* App::update_state
update_state(a, act, room, verdict) ==
    CASE act.kind = "Restart" -> Ret(handle_restart(a))
      [] act.kind = "Quit" -> Ret([a EXCEPT !.should_quit = TRUE])
      [] act.kind = "RequestReset" -> Ret(handle_request_reset(a))
      [] act.kind = "ConfirmReset" -> handle_confirm_reset(a, room)
      [] act.kind = "CancelReset" -> Ret(handle_cancel_reset(a))
      [] act.kind = "Tick" -> handle_tick(a, room)
      [] act.kind = "MouseMove" -> Ret(a)
      [] act.kind = "MouseClick" -> Ret(handle_click(a, verdict))
      [] act.kind = "NavigateLeft" -> Ret(handle_navigate_left(a))
      [] act.kind = "NavigateRight" -> Ret(handle_navigate_right(a))
      [] act.kind = "AppendCharacter" -> Ret(handle_append_char(a, act.ch))
      [] act.kind = "DeleteCharacter" -> Ret(handle_delete_char(a))
      [] act.kind = "SubmitInput" -> handle_submit_name(a, room)
      [] act.kind = "BackToMenu" -> Ret(change_scene(a, MenuScene))

\* ------------------------------------------------------------- input.rs
\* Decoded input events: keys (with or without CTRL) and mouse reports.
KeyEvent(ctrl, key) == [dev |-> "key", ctrl |-> ctrl, key |-> key, left |-> FALSE]
MouseEvent(left) == [dev |-> "mouse", ctrl |-> FALSE, key |-> "", left |-> left]

Events ==
    {KeyEvent(TRUE, k) : k \in {"c", "k", "a"}}
    \cup {KeyEvent(FALSE, k) : k \in {"q", "r", "y", "n", "-", "Enter",
                                      "Backspace", "Escape", "Tab"}}
    \cup {MouseEvent(l) : l \in BOOLEAN}

\* The non-CTRL key arms shared by the captured and the free mapping.
map_plain_key(key) ==
    CASE key = "Enter" -> Act("SubmitInput")
      [] key = "Backspace" -> Act("DeleteCharacter")
      [] key = "Escape" -> Act("BackToMenu")
      [] key = "Tab" -> NoAction
      [] OTHER -> [kind |-> "AppendCharacter", ch |-> key]

\* map_input_to_action
map_input_to_action(event, captured, last_buttons) ==
    IF event.dev = "key"
    THEN IF event.ctrl
         THEN CASE event.key \in {"c", "d"} -> Act("Quit")
                [] event.key = "k" -> Act("RequestReset")
                [] OTHER -> NoAction
         ELSE IF captured
              THEN map_plain_key(event.key)
              ELSE CASE event.key = "q" -> Act("Quit")
                     [] event.key = "r" -> Act("Restart")
                     [] event.key = "y" -> Act("ConfirmReset")
                     [] event.key = "n" -> Act("CancelReset")
                     [] OTHER -> map_plain_key(event.key)
    ELSE IF event.left /\ ~last_buttons
         THEN Act("MouseClick")
         ELSE Act("MouseMove")

\* ------------------------------------------- request queue, reply channels
ReqIds == 1..MaxReq
FreeIds == {i \in ReqIds : reply[i] = "free"}
Request(kind, id) == [kind |-> kind, id |-> id]

\* mpsc::Sender::try_send succeeds: a slot is free (it fails the same way,
\* with the request handed back, when the worker's receiver is gone).
HasRoom == Len(db_queue) < QueueCap

\* The effect of an update_state call on the queue and the reply channels:
\* a request that found room is appended with its reply sender; one that
\* did not is dropped together with its sender, which closes the channel.
Submit(r, room) ==
    /\ save_game_sent' = IF r.send # "SaveGame" THEN save_game_sent
                         ELSE IF room THEN "ok" ELSE "failed"
    /\ IF r.send = "none"
       THEN UNCHANGED <<db_queue, reply>>
       ELSE IF r.rx
            THEN /\ FreeIds # {}
                 /\ LET id == CHOOSE i \in FreeIds : \A j \in FreeIds : i <= j
                    IN IF room
                       THEN /\ db_queue' = Append(db_queue, Request(r.send, id))
                            /\ reply' = [reply EXCEPT ![id] = "waiting"]
                       ELSE /\ db_queue' = db_queue
                            /\ reply' = [reply EXCEPT ![id] = "closed"]
            ELSE /\ reply' = reply
                 /\ db_queue' = IF room /\ r.send = "SaveGame"
                                THEN Append(db_queue, Request(r.send, 0))
                                ELSE db_queue

\* ------------------------------------------------------------ server.rs
\* Handler::data with one decoded event: map it to an action, apply it under
\* the App lock, spawn a reply task for a returned receiver, wake the loop.
data(event, verdict) ==
    /\ LET act == map_input_to_action(event, input_captured(app),
                                      last_mouse_buttons)
           room == HasRoom
           r == IF act = NoAction THEN Ret(app)
                ELSE update_state(app, act, room, verdict)
       IN /\ verdict # "miss" =>
                (app.scene.type = "Playing" /\ act.kind = "MouseClick")
          /\ verdict = "hit" => app.scene.combat_stats.hit_count < MaxHits
          /\ (act.kind = "AppendCharacter" /\ app.scene.type = "Naming")
                => app.scene.input < MaxTyped
          /\ app' = r.app
          /\ Submit(r, room)
    /\ last_mouse_buttons' = IF event.dev = "mouse" THEN event.left
                             ELSE last_mouse_buttons
    /\ UNCHANGED <<loop_running, sess_vars, trace_vars, call_vars, store_vars,
                   loop_vars>>

\* run_render_loop, one iteration: apply Tick, render, send the frame; the
\* loop breaks when the send fails or should_quit is set.
render_tick(send_failed) ==
    /\ loop_running
    /\ LET room == HasRoom
           r == update_state(app, Act("Tick"), room, "miss")
       IN /\ app' = r.app
          /\ Submit(r, room)
          /\ loop_running' = ~(send_failed \/ r.app.should_quit)
    /\ UNCHANGED <<last_mouse_buttons, sess_vars, trace_vars, call_vars, store_vars,
                   loop_vars>>

\* The reply task spawned by Handler::data, once its receiver resolved:
\* Ok(Ok) names the user (in Naming) and enters Menu; Ok(Err) attaches the
\* error to a Naming scene; a closed channel is ignored.
apply_reply(a, result) ==
    CASE result = "ok" ->
           change_scene(IF a.scene.type = "Naming"
                        THEN [a EXCEPT !.user.has_name = TRUE]
                        ELSE a,
                        MenuScene)
      [] result = "err" ->
           IF a.scene.type = "Naming"
           THEN [a EXCEPT !.scene.error = "db", !.scene.is_loading = FALSE]
           ELSE a
      [] OTHER -> a

reply_task(id) ==
    /\ reply[id] \in {"ok", "err", "closed"}
    /\ app' = apply_reply(app, reply[id])
    /\ reply' = [reply EXCEPT ![id] = "free"]
    /\ UNCHANGED <<db_queue, loop_running, last_mouse_buttons,
                   save_game_sent, sess_vars, trace_vars, call_vars, store_vars,
                   loop_vars>>

\* Time passes: every kept Instant ages by dt.
AgeBy(x, dt, cap) == Min(x + dt, cap)

advance_time(dt) ==
    /\ LET s == app.scene
           a1 == [app EXCEPT
                    !.last_scene_change = AgeBy(@, dt, GAME_OVER_COOLDOWN_MS),
                    !.last_cheat_warning =
                        IF @ = NoWarning THEN @ ELSE AgeBy(@, dt, WarningMs)]
       IN app' = IF s.type = "Playing"
                 THEN [a1 EXCEPT
                         !.scene.scene_start = AgeBy(@, dt, RoundMs),
                         !.scene.last_target_spawn =
                             AgeBy(@, dt, MAX_TARGET_LIFETIME_MS)]
                 ELSE a1
    /\ app' # app
    /\ UNCHANGED <<db_queue, reply, loop_running, last_mouse_buttons,
                   save_game_sent, sess_vars, trace_vars, call_vars, store_vars,
                   loop_vars>>

\* Another session's App submits a round result of its own through the
\* shared db_tx.
other_session_request ==
    /\ HasRoom
    /\ db_queue' = Append(db_queue, Request("SaveGame", 0))
    /\ UNCHANGED <<app, reply, loop_running, last_mouse_buttons,
                   save_game_sent, sess_vars, trace_vars, call_vars, store_vars,
                   loop_vars>>

\* The persistence worker takes the next request and handles it; a rename or
\* delete is answered on its reply channel with Ok or Err.
worker_step(outcome) ==
    /\ db_queue # <<>>
    /\ LET req == Head(db_queue)
       IN /\ (req.id \notin ReqIds) => outcome = "ok"
          /\ reply' = IF req.id \in ReqIds
                      THEN [reply EXCEPT ![req.id] = outcome]
                      ELSE reply
    /\ db_queue' = Tail(db_queue)
    /\ UNCHANGED <<app, loop_running, last_mouse_buttons, save_game_sent,
                   sess_vars, trace_vars, call_vars, store_vars, loop_vars>>

\* High scores an identity may already have when its session starts.
InitialHighScores == {0, 120}

\* The surroundings of the App when its session starts.
InitAppEnv ==
    /\ db_queue = <<>>
    /\ reply = [i \in ReqIds |-> "free"]
    /\ loop_running = TRUE
    /\ last_mouse_buttons = FALSE
    /\ save_game_sent = "none"

\* shell_request: App::new from the fetched UserContext.
InitApp ==
    /\ \E has_name \in BOOLEAN, hs \in InitialHighScores :
           app = NewApp(has_name, hs)
    /\ InitAppEnv

\* The App part held still while the supervisor is studied.
InitAppIdle ==
    /\ app = NewApp(TRUE, 0)
    /\ InitAppEnv

NextApp ==
    \/ \E event \in Events, verdict \in ClickVerdicts : data(event, verdict)
    \/ \E send_failed \in BOOLEAN : render_tick(send_failed)
    \/ \E id \in ReqIds : reply_task(id)
    \/ advance_time(TimeStepMs)
    \/ other_session_request
    \/ \E outcome \in {"ok", "err"} : worker_step(outcome)

\* ------------------------------------------------- the persistence store
\* setup_schema: the users and user_stats tables. AUTOINCREMENT gives no id
\* a second time; foreign_keys tells whether the SQLite build enforces
\* `FOREIGN KEY ... ON DELETE CASCADE` (the bundled build does, the
\* library's own default does not).
EmptyRepo(foreign_keys) ==
    [users |-> {}, user_stats |-> {}, next_id |-> 1,
     foreign_keys |-> foreign_keys]

\* strftime('%Y-%W', 'now'), for days counted from the Monday of week 0.
week_of(day) == day \div DAYS_PER_WEEK

UserIds(r) == {u.id : u \in r.users}

\* The user_stats row of user_id: at most one (PRIMARY KEY).
StatsRows(r, user_id) == {s \in r.user_stats : s.user_id = user_id}

\* IFNULL(s.high_score, 0) of `users u LEFT JOIN user_stats s`.
high_score_or_zero(r, user_id) ==
    IF StatsRows(r, user_id) = {} THEN 0
    ELSE (CHOOSE s \in StatsRows(r, user_id) : TRUE).high_score

Larger(a, b) == IF a >= b THEN a ELSE b

\* Mutant of save_game: the daily high score never starts afresh.
save_game_daily_kept(r, user_id, score, hits, misses, day) ==
    IF r.foreign_keys /\ user_id \notin UserIds(r)
    THEN [ok |-> FALSE, repo |-> r]
    ELSE IF StatsRows(r, user_id) = {}
    THEN [ok |-> TRUE,
          repo |-> [r EXCEPT !.user_stats = @ \cup
             {[user_id |-> user_id,
               high_score |-> score, high_score_at |-> day,
               daily_high_score |-> score, daily_high_score_at |-> day,
               weekly_high_score |-> score,
               weekly_high_score_at |-> week_of(day),
               total_hits |-> hits, total_misses |-> misses,
               sessions |-> 1]}]]
    ELSE LET old == CHOOSE s \in StatsRows(r, user_id) : TRUE
             new == [user_id |-> user_id,
                     high_score_at |->
                         IF score > old.high_score THEN day
                         ELSE old.high_score_at,
                     high_score |-> Larger(old.high_score, score),
                     daily_high_score |-> Larger(old.daily_high_score, score),
                     daily_high_score_at |-> day,
                     weekly_high_score |->
                         IF old.weekly_high_score_at # week_of(day) THEN score
                         ELSE Larger(old.weekly_high_score, score),
                     weekly_high_score_at |-> week_of(day),
                     total_hits |-> old.total_hits + hits,
                     total_misses |-> old.total_misses + misses,
                     sessions |-> old.sessions + 1]
         IN [ok |-> TRUE,
             repo |-> [r EXCEPT !.user_stats = (@ \ {old}) \cup {new}]]

\* Repository::save_game: INSERT ... ON CONFLICT(user_id) DO UPDATE. The
\* right-hand sides of the UPDATE read the row as it was. With foreign keys
\* enforced, a row for a user_id that is no user is refused.
save_game(r, user_id, score, hits, misses, day) ==
    IF r.foreign_keys /\ user_id \notin UserIds(r)
    THEN [ok |-> FALSE, repo |-> r]
    ELSE IF StatsRows(r, user_id) = {}
    THEN [ok |-> TRUE,
          repo |-> [r EXCEPT !.user_stats = @ \cup
             {[user_id |-> user_id,
               high_score |-> score, high_score_at |-> day,
               daily_high_score |-> score, daily_high_score_at |-> day,
               weekly_high_score |-> score,
               weekly_high_score_at |-> week_of(day),
               total_hits |-> hits, total_misses |-> misses,
               sessions |-> 1]}]]
    ELSE LET old == CHOOSE s \in StatsRows(r, user_id) : TRUE
             new == [user_id |-> user_id,
                     high_score_at |->
                         IF score > old.high_score THEN day
                         ELSE old.high_score_at,
                     high_score |-> Larger(old.high_score, score),
                     daily_high_score |->
                         IF old.daily_high_score_at # day THEN score
                         ELSE Larger(old.daily_high_score, score),
                     daily_high_score_at |-> day,
                     weekly_high_score |->
                         IF old.weekly_high_score_at # week_of(day) THEN score
                         ELSE Larger(old.weekly_high_score, score),
                     weekly_high_score_at |-> week_of(day),
                     total_hits |-> old.total_hits + hits,
                     total_misses |-> old.total_misses + misses,
                     sessions |-> old.sessions + 1]
         IN [ok |-> TRUE,
             repo |-> [r EXCEPT !.user_stats = (@ \ {old}) \cup {new}]]

\* Repository::update_username: UPDATE users SET username; the UNIQUE
\* constraint on username refuses a name another user holds.
update_username(r, user_id, name) ==
    IF /\ user_id \in UserIds(r)
       /\ \E u \in r.users : u.username = name /\ u.id # user_id
    THEN [ok |-> FALSE, repo |-> r]
    ELSE [ok |-> TRUE,
          repo |-> [r EXCEPT !.users =
                      {IF u.id = user_id THEN [u EXCEPT !.username = name]
                       ELSE u : u \in @}]]

\* Repository::create_user: INSERT INTO users; fingerprint and username are
\* both UNIQUE.
create_user(r, fp, initial_name, day) ==
    IF \E u \in r.users :
           u.fingerprint = fp \/ u.username = initial_name
    THEN [ok |-> FALSE, repo |-> r, id |-> 0]
    ELSE [ok |-> TRUE,
          repo |-> [r EXCEPT
                      !.users = @ \cup {[id |-> r.next_id,
                                         fingerprint |-> fp,
                                         username |-> initial_name,
                                         created_at |-> day]},
                      !.next_id = @ + 1],
          id |-> r.next_id]

\* The rows the DELETE of enforce_user_limit may take: the users without a
\* score, the oldest first; among equally old ones SQLite is free to choose.
eviction_candidates(r) ==
    LET zero == {u \in r.users : high_score_or_zero(r, u.id) = 0}
    IN {u \in zero : \A v \in zero : u.created_at <= v.created_at}

\* The tables after `DELETE FROM users WHERE id = ...`: the stats row goes
\* with the user when foreign keys are enforced.
delete_user(r, id) ==
    [r EXCEPT !.users = {u \in @ : u.id # id},
              !.user_stats = IF r.foreign_keys
                             THEN {s \in @ : s.user_id # id}
                             ELSE @]

\* Mutant of enforce_user_limit: the oldest user goes, whatever its score.
enforce_user_limit_any_score(r, victim) ==
    IF Cardinality(r.users) >= MaxUsers
    THEN LET oldest == {u \in r.users :
                          \A v \in r.users : u.created_at <= v.created_at}
         IN [ok |-> TRUE,
             repo |-> delete_user(r, (CHOOSE u \in oldest : TRUE).id)]
    ELSE [ok |-> TRUE, repo |-> r]

\* Mutant of enforce_user_limit: room is made only above the cap.
enforce_user_limit_above_cap(r, victim) ==
    IF Cardinality(r.users) > MaxUsers
    THEN IF eviction_candidates(r) = {}
         THEN [ok |-> FALSE, repo |-> r]
         ELSE [ok |-> TRUE, repo |-> delete_user(r, victim)]
    ELSE [ok |-> TRUE, repo |-> r]

\* Repository::enforce_user_limit; victim is the id of the row SQLite
\* chooses among the candidates.
enforce_user_limit(r, victim) ==
    IF Cardinality(r.users) >= MaxUsers
    THEN IF eviction_candidates(r) = {}
         THEN [ok |-> FALSE, repo |-> r]
         ELSE [ok |-> TRUE, repo |-> delete_user(r, victim)]
    ELSE [ok |-> TRUE, repo |-> r]

\* Repository::get_or_create_user_context: the statements run one after the
\* other, each committed on its own; `?` leaves at the first that fails.
get_or_create_user_context(r, fp, victim, day) ==
    IF \E u \in r.users : u.fingerprint = fp
    THEN LET u == CHOOSE x \in r.users : x.fingerprint = fp
         IN [ok |-> TRUE, repo |-> r, error |-> "",
             ctx |-> [id |-> u.id, fingerprint |-> fp,
                      name |-> u.username,
                      high_score |-> high_score_or_zero(r, u.id)]]
    ELSE LET limit == enforce_user_limit(r, victim)
             created == create_user(limit.repo, fp, DEFAULT_NAME, day)
         IN IF ~limit.ok
            THEN [ok |-> FALSE, repo |-> limit.repo,
                  error |-> "User limit reached", ctx |-> <<>>]
            ELSE IF ~created.ok
            THEN [ok |-> FALSE, repo |-> created.repo,
                  error |-> "constraint failed", ctx |-> <<>>]
            ELSE [ok |-> TRUE, repo |-> created.repo, error |-> "",
                  ctx |-> [id |-> created.id, fingerprint |-> fp,
                           name |-> DEFAULT_NAME, high_score |-> 0]]

RankingPeriods == {"Daily", "Weekly", "AllTime"}

\* The rows get_top_scores selects: users joined with their stats, the
\* period's score above 0 and, for a day or a week, of the current one.
ranked_rows(r, period, day) ==
    {[id |-> u.id, name |-> u.username,
      score |-> CASE period = "Daily" -> s.daily_high_score
                  [] period = "Weekly" -> s.weekly_high_score
                  [] OTHER -> s.high_score,
      created_at |-> s.high_score_at] :
        <<u, s>> \in {p \in r.users \X r.user_stats :
                        /\ p[1].id = p[2].user_id
                        /\ CASE period = "Daily" ->
                                  /\ p[2].daily_high_score > 0
                                  /\ p[2].daily_high_score_at = day
                             [] period = "Weekly" ->
                                  /\ p[2].weekly_high_score > 0
                                  /\ p[2].weekly_high_score_at = week_of(day)
                             [] OTHER -> p[2].high_score > 0}}

\* ORDER BY score DESC LIMIT limit; rows of equal score are put in the
\* order of their ids.
RECURSIVE ordered_desc(_, _)
ordered_desc(rows, limit) ==
    IF rows = {} \/ limit = 0 THEN <<>>
    ELSE LET first == CHOOSE x \in rows :
                         \A y \in rows :
                            \/ x.score > y.score
                            \/ (x.score = y.score /\ x.id <= y.id)
         IN <<[name |-> first.name, score |-> first.score,
               created_at |-> first.created_at]>>
              \o ordered_desc(rows \ {first}, limit - 1)

\* Repository::get_top_scores
get_top_scores(r, period, day, limit) ==
    ordered_desc(ranked_rows(r, period, day), limit)

\* Repository::get_current_cache. Each list carries the number of the call
\* that computed it; the number is not part of the program's DbCache.
get_current_cache(r, day, generation) ==
    [daily_scores |->
         [generation |-> generation,
          entries |-> get_top_scores(r, "Daily", day, RANKING_LIMIT)],
     weekly_scores |->
         [generation |-> generation,
          entries |-> get_top_scores(r, "Weekly", day, RANKING_LIMIT)],
     all_time_scores |->
         [generation |-> generation,
          entries |-> get_top_scores(r, "AllTime", day, RANKING_LIMIT)]]

\* Mutant of handle_request: a saved round is not followed by a snapshot.
handle_request_save_unpublished(r, req, victim, day, generation) ==
    CASE req.kind = "GetOrCreateUser" ->
           LET res == get_or_create_user_context(r, req.fingerprint, victim,
                                                 day)
           IN [repo |-> res.repo, new_cache |-> <<>>, ok |-> res.ok]
      [] req.kind = "SaveGame" ->
           LET res == save_game(r, req.user_id, req.score, req.hits,
                                req.misses, day)
           IN [repo |-> res.repo, new_cache |-> <<>>, ok |-> res.ok]
      [] OTHER ->
           LET res == update_username(r, req.user_id, req.new_name)
           IN [repo |-> res.repo,
               new_cache |-> IF res.ok
                             THEN <<get_current_cache(res.repo, day,
                                                      generation)>>
                             ELSE <<>>,
               ok |-> res.ok]

\* Repository::handle_request: the tables afterwards, the DbCache returned
\* (<<>> for None), and whether the request succeeded.
handle_request(r, req, victim, day, generation) ==
    CASE req.kind = "GetOrCreateUser" ->
           LET res == get_or_create_user_context(r, req.fingerprint, victim,
                                                 day)
           IN [repo |-> res.repo, new_cache |-> <<>>, ok |-> res.ok]
      [] req.kind = "SaveGame" ->
           LET res == save_game(r, req.user_id, req.score, req.hits,
                                req.misses, day)
           IN [repo |-> res.repo,
               new_cache |-> IF res.ok
                             THEN <<get_current_cache(res.repo, day,
                                                      generation)>>
                             ELSE <<>>,
               ok |-> res.ok]
      [] OTHER ->
           LET res == update_username(r, req.user_id, req.new_name)
           IN [repo |-> res.repo,
               new_cache |-> IF res.ok
                             THEN <<get_current_cache(res.repo, day,
                                                      generation)>>
                             ELSE <<>>,
               ok |-> res.ok]

\* The worker thread between two requests.
WorkerAtRecv(handled, ok) ==
    [pc |-> "recv", req |-> <<>>, new_cache |-> <<>>, handled |-> handled,
     ok |-> ok]

\* No store under study.
InitStoreIdle ==
    /\ repo = EmptyRepo(FALSE)
    /\ today = 0
    /\ cache = get_current_cache(EmptyRepo(FALSE), 0, 0)
    /\ worker = WorkerAtRecv(0, TRUE)
    /\ db_cache = get_current_cache(EmptyRepo(FALSE), 0, 0)
    /\ requests_sent = 0

\* run_render_loop before its first iteration: nothing signalled, and the
\* first tick of a tokio interval is due at once.
InitLoopIdle ==
    /\ update_rx = 0
    /\ interval_ready = TRUE
    /\ last_wake = "none"

\* No round under way: there is no PlayingState, hence no trace.
\* Target::new_random: a target of the default size at a position of the
\* screen that keeps the padding.
Targets ==
    {[pos |-> p, visual_width |-> 4, visual_height |-> 2] :
         p \in {<<2, 2>>, <<18, 24>>}}

\* The target that the specifications that do not follow the target let
\* every spawn give.
FirstTarget == [pos |-> <<2, 2>>, visual_width |-> 4, visual_height |-> 2]

\* No round under way: no PlayingState, hence no target.
NoTarget == [pos |-> <<0, 0>>, visual_width |-> 0, visual_height |-> 0]

\* PlayingState.target after the action: a fresh one at the start of a
\* round, after a confirmed hit and after an expiry; the same one otherwise.
target_after(a, act, verdict, tgt, fresh) ==
    LET after == update_state(a, act, FALSE, verdict).app
    IN IF after.scene.type # "Playing" THEN NoTarget
       ELSE IF a.scene.type # "Playing" THEN fresh
       ELSE CASE act.kind = "Restart" -> fresh
              [] act.kind = "MouseClick" ->
                     IF verdict = "hit" THEN fresh ELSE tgt
              [] act.kind = "Tick" ->
                     IF is_expired(a.scene.last_target_spawn,
                                   a.scene.combat_stats)
                     THEN fresh ELSE tgt
              [] OTHER -> tgt

InitTraceIdle ==
    /\ mouse_history = <<>>
    /\ mouse_pos = <<0, 0>>
    /\ target = NoTarget

\* No pure function under study.
InitCallsIdle ==
    /\ combat_stats = NewCombatStats
    /\ history = <<>>
    /\ spawn_time = 0
    /\ click_pos = <<0, 0>>
    /\ is_legit = <<>>

\* The supervisor with one idle App beside it.
InitSupervisor ==
    /\ InitSessions
    /\ InitAppIdle
    /\ InitTraceIdle
    /\ InitStoreIdle
    /\ InitLoopIdle
    /\ InitCallsIdle

SpecSessions == InitSupervisor /\ [][NextSessions]_vars

\* join_all polls every cleanup task to completion, and the tokio runtime
\* keeps scheduling a ready task: each task's next step is weakly fair.
FairSessions ==
    SpecSessions /\ \A c \in Conns : WF_vars(ShutdownStep(c))

\* One session's App from its start, the supervisor held still.
InitSession ==
    /\ InitSessions
    /\ InitApp
    /\ InitTraceIdle
    /\ InitStoreIdle
    /\ InitLoopIdle
    /\ InitCallsIdle

SpecApp == InitSession /\ [][NextApp]_vars

\* ------------------------------------------------- claims on the supervisor
\* A login (shell_request carrying a fingerprint) that has not returned yet.
InLogin(c) == pc[c] \in {"kick_data", "kick_close", "fetching"}

\* A session whose render task runs and that has not been sent cleanup+close.
Live(c) == pc[c] = "running" /\ ~(cleanup_sent[c] > 0 /\ close_sent[c] > 0)

LiveOf(f) == {c \in Conns : fingerprint[c] = f /\ Live(c)}

\* The handle was returned as displaced by some registration.
Displaced(o) == \E c \in Conns : old_session[c] = o

\* C1: once no login of a fingerprint is still in progress (and no shutdown
\* has drained the registry), at most one session of that fingerprint is
\* live, and it is the one stored in the registry.
C1_OneLiveSessionPerIdentity ==
    \A f \in FPs :
        (~shutdown /\ \A c \in Conns : fingerprint[c] = f => ~InLogin(c)) =>
            /\ Cardinality(LiveOf(f)) <= 1
            /\ \A c \in LiveOf(f) : active_sessions[f] = c

\* C2: a handle displaced by a second registration is sent the cleanup
\* payload and the close at most once each, counting the evictor's send and
\* the displaced session's own DropGuard.
C2_DisplacedCleanedOnce ==
    \A o \in Conns :
        (~shutdown /\ Displaced(o)) =>
            cleanup_sent[o] <= 1 /\ close_sent[o] <= 1

\* C3: every started session task is sent cleanup and close exactly once:
\* never twice, and once its finalizer has run, not zero times.
C3_CleanupExactlyOnce ==
    \A c \in Conns :
        has_app[c] =>
            /\ cleanup_sent[c] <= 1 /\ close_sent[c] <= 1
            /\ pc[c] = "finished" => cleanup_sent[c] = 1 /\ close_sent[c] = 1

\* C4: cleanup_all_sessions empties the registry in its one critical section
\* and enrols every session that was registered at that instant; the cleanup
\* task of each enrolled session sends it one more cleanup payload and one
\* more close, and eventually completes.
C4_ShutdownReachesEveryRegistered ==
    /\ [][cleanup_all_sessions =>
            /\ \A f \in FPs : active_sessions'[f] = NoSession
            /\ \A f \in FPs : active_sessions[f] # NoSession =>
                   shut_pc'[active_sessions[f]] = "data"]_vars
    /\ [][\A c \in Conns :
            /\ (shut_pc[c] = "data" /\ shut_pc'[c] # "data") =>
                   cleanup_sent'[c] = cleanup_sent[c] + 1
            /\ (shut_pc[c] # "done" /\ shut_pc'[c] = "done") =>
                   close_sent'[c] = close_sent[c] + 1]_vars
    /\ \A c \in Conns : (shut_pc[c] = "data") ~> (shut_pc[c] = "done")

\* Witness of C4: the shutdown drained a registry holding two sessions and
\* both have been sent cleanup and close by their cleanup tasks.
C4_Witness ==
    /\ shutdown
    /\ \A c \in Conns : shut_pc[c] = "done" /\ cleanup_sent[c] > 0
                        /\ close_sent[c] > 0

\* C5: a shell_request on a connection without a fingerprint closes the
\* channel, creates no App, starts no render loop and leaves the registry
\* unchanged; the connection stays rejected.
C5_NoKeyRejected ==
    [][\A c \in Conns :
          /\ (pc[c] = "authed" /\ fingerprint[c] = NoKey /\ pc'[c] # pc[c]) =>
                /\ pc'[c] = "rejected"
                /\ close_sent'[c] = close_sent[c] + 1
                /\ ~has_app'[c]
                /\ active_sessions' = active_sessions
          /\ pc[c] = "rejected" => pc'[c] = "rejected" /\ ~has_app'[c]]_vars

\* Witness of C5: a connection was rejected while another session was
\* registered.
C5_Witness ==
    \E c \in Conns :
        /\ pc[c] = "rejected"
        /\ fingerprint[c] = NoKey
        /\ close_sent[c] = 1
        /\ \E f \in FPs : active_sessions[f] # NoSession

\* ------------------------------------------- claims on the scene controller
\* A step of Handler::data that applied the action of the given kind.
Applied(kind) ==
    \E event \in Events, verdict \in ClickVerdicts :
        /\ data(event, verdict)
        /\ map_input_to_action(event, input_captured(app),
                               last_mouse_buttons).kind = kind

\* A step of the render loop (the only source of Action::Tick).
TickStep == \E send_failed \in BOOLEAN : render_tick(send_failed)

\* A step of a reply task that received Ok(Ok(_)).
ReplyOkStep == \E id \in ReqIds : reply_task(id) /\ reply[id] = "ok"

\* The step changes the variant of the scene from `from` to `to`.
Goes(from, to) == app.scene.type = from /\ app'.scene.type = to

\* The transitions listed for the scene controller.
ListedTransition ==
    \/ Goes("Naming", "Menu") /\ ReplyOkStep
    \/ Goes("Menu", "Playing") /\ Applied("MouseClick")
    \/ Goes("Playing", "GameOver") /\ TickStep
         /\ app.scene.scene_start >= RoundMs
    \/ Goes("GameOver", "Menu") /\ Applied("MouseClick")
         /\ app.last_scene_change >= GAME_OVER_COOLDOWN_MS
    \/ Goes("GameOver", "Playing") /\ Applied("Restart")
    \/ Goes("Menu", "ResetConfirmation") /\ Applied("RequestReset")
    \/ Goes("ResetConfirmation", "Menu")
         /\ (ReplyOkStep \/ Applied("CancelReset"))

\* C6 as stated: the session always has one scene, and every change of the
\* scene's variant is one of the listed transitions.
C6_OnlyListedTransitions ==
    /\ [](app.scene.type \in SceneTypes)
    /\ [][app'.scene.type # app.scene.type => ListedTransition]_vars

\* C6 as amended: every change of the scene's variant is a listed
\* transition, or enters Menu on back-to-menu from any scene, or enters Menu
\* when a reply task applies an Ok reply in any scene.
C6_TransitionsWithBackToMenu ==
    /\ [](app.scene.type \in SceneTypes)
    /\ [][app'.scene.type # app.scene.type =>
            \/ ListedTransition
            \/ app'.scene.type = "Menu" /\ Applied("BackToMenu")
            \/ app'.scene.type = "Menu" /\ ReplyOkStep]_vars

\* Witness of C6: a round was played to its end through Menu and Playing,
\* and the identity was named on the way (Naming to Menu on an Ok reply).
C6_Witness ==
    /\ app.scene.type = "GameOver"
    /\ app.scene.final_score > 0
    /\ app.user.has_name

\* The step appended a DeleteUser request to the worker's queue.
DeleteRequested ==
    /\ Len(db_queue') = Len(db_queue) + 1
    /\ db_queue'[Len(db_queue')].kind = "DeleteUser"

\* C7: a delete request is sent only by confirm-reset applied in
\* ResetConfirmation; confirm-reset in any other scene sends nothing and
\* changes nothing.
C7_DeleteOnlyFromResetConfirmation ==
    /\ [][DeleteRequested =>
            Applied("ConfirmReset") /\ app.scene.type = "ResetConfirmation"]_vars
    /\ [][(Applied("ConfirmReset") /\ app.scene.type # "ResetConfirmation") =>
            UNCHANGED <<app, db_queue, reply>>]_vars

\* Reply channels of requests that were issued and whose reply has not been
\* applied yet.
InFlight == {i \in ReqIds : reply[i] \in {"waiting", "ok", "err"}}

\* C8: a session has at most one rename/delete request in flight.
C8_AtMostOneRequestInFlight == Cardinality(InFlight) <= 1

\* C9: a Naming scene that is awaiting a reply leaves that state: while it
\* is loading, some reply task of the session is still to run (once the
\* last one has run, is_loading is false again).
C9_AwaitingReplyEnds ==
    (app.scene.type = "Naming" /\ app.scene.is_loading) =>
        \E i \in ReqIds : reply[i] # "free"

Sample == [for_current_target |-> TRUE]

\* Target::new_random replaces the target: samples still held belong to
\* the previous one.
new_random(h) == [i \in DOMAIN h |-> [for_current_target |-> FALSE]]

\* start_game: the trace starts with one sample at the pointer's position.
mouse_history_at_start == <<Sample>>

\* handle_mouse_move: push, and drop the oldest sample past the capacity.
mouse_history_after_move(h) ==
    LET pushed == Append(h, Sample)
    IN IF Len(pushed) > MOUSE_HISTORY_CAP THEN Tail(pushed) ELSE pushed

\* BehaviorAnalyzer::is_legit_interaction, called by handle_click right
\* after it pushed the click's sample: the last sample's time is the
\* present, so its distance from spawn_time is the age of the spawn.
analyzer_is_legit_interaction(h, spawn_age) ==
    IF h = <<>> THEN FALSE
    ELSE IF spawn_age < ANALYZER_MIN_REACTION_MS THEN FALSE
    ELSE TRUE

\* handle_click in Playing: which of its three outcomes a click has.
click_verdict(a, h, is_hit) ==
    IF ~is_hit THEN "miss"
    ELSE IF analyzer_is_legit_interaction(Append(h, Sample),
                                          a.scene.last_target_spawn)
         THEN "hit"
         ELSE "rejected"

\* Mutant of mouse_history_after_click: a confirmed hit keeps the trace.
mouse_history_after_click_kept(h, verdict) ==
    LET pushed == Append(h, Sample)
    IN CASE verdict = "miss" -> pushed
         [] verdict = "hit" -> new_random(pushed)
         [] OTHER -> <<>>

\* handle_click in Playing: push the click; a miss keeps the trace, a
\* confirmed hit replaces the target and clears it, a rejected one clears it.
mouse_history_after_click(h, verdict) ==
    LET pushed == Append(h, Sample)
    IN CASE verdict = "miss" -> pushed
         [] verdict = "hit" -> SubSeq(new_random(pushed), 1, 0)
         [] OTHER -> <<>>

\* handle_tick in Playing: an expired target is replaced, the trace cleared.
mouse_history_after_tick(a, h) ==
    IF is_expired(a.scene.last_target_spawn, a.scene.combat_stats)
    THEN SubSeq(new_random(h), 1, 0)
    ELSE h

\* The trace after update_state applied act to App a: the PlayingState of
\* the scene holds it, so it exists only in Playing.
mouse_history_after(a, act, verdict, h) ==
    LET after == update_state(a, act, FALSE, verdict).app
    IN IF after.scene.type # "Playing" THEN <<>>
       ELSE IF a.scene.type # "Playing" THEN mouse_history_at_start
       ELSE CASE act.kind = "Restart" -> mouse_history_at_start
              [] act.kind = "MouseMove" -> mouse_history_after_move(h)
              [] act.kind = "MouseClick" -> mouse_history_after_click(h, verdict)
              [] act.kind = "Tick" -> mouse_history_after_tick(a, h)
              [] OTHER -> h

\* The actions a pointer or a key can produce during a round.
RoundActions == {Act("MouseMove"), Act("MouseClick"), Act("Restart")}

\* Handler::data, with the event already mapped to its action; is_hit is
\* Target::is_hit at the click's position, fresh the target that
\* Target::new_random gives if the action spawns one.
round_action(act, pos, is_hit, fresh) ==
    /\ LET verdict == IF act.kind = "MouseClick" /\ app.scene.type = "Playing"
                      THEN click_verdict(app, mouse_history, is_hit)
                      ELSE "miss"
           room == HasRoom
           r == update_state(app, act, room, verdict)
       IN /\ is_hit => (act.kind = "MouseClick" /\ app.scene.type = "Playing")
          /\ verdict = "hit" => app.scene.combat_stats.hit_count < MaxRoundHits
          /\ (act.kind = "MouseClick" /\ app.scene.type = "Playing")
                => Len(mouse_history) < MaxTraceLen
          /\ app' = r.app
          /\ Submit(r, room)
          /\ mouse_history' = mouse_history_after(app, act, verdict,
                                                  mouse_history)
          /\ target' = target_after(app, act, verdict, target, fresh)
          /\ mouse_pos' = IF act.kind = "MouseMove" THEN pos ELSE mouse_pos
    /\ UNCHANGED <<loop_running, last_mouse_buttons, sess_vars, call_vars, store_vars,
                   loop_vars>>

\* The same, whichever target a spawn gives.
pointer_action(act, pos, is_hit) ==
    \E fresh \in Targets : round_action(act, pos, is_hit, fresh)

\* The same where positions are not followed: the pointer stays where
\* App::new put it.
action_applied(act, is_hit) == pointer_action(act, <<0, 0>>, is_hit)

\* run_render_loop, one iteration, with the trace; fresh is the target
\* that Target::new_random gives if the tick spawns one.
round_tick(fresh) ==
    /\ LET room == HasRoom
           r == update_state(app, Act("Tick"), room, "miss")
       IN /\ app' = r.app
          /\ Submit(r, room)
          /\ mouse_history' = mouse_history_after(app, Act("Tick"), "miss",
                                                  mouse_history)
          /\ target' = target_after(app, Act("Tick"), "miss", target, fresh)
    /\ UNCHANGED <<mouse_pos, loop_running, last_mouse_buttons, sess_vars,
                   call_vars, store_vars, loop_vars>>

\* The same, whichever target a spawn gives.
tick_applied == \E fresh \in Targets : round_tick(fresh)

\* Time passes during the round.
round_time_passes == advance_time(RoundStepMs)

\* A named user in Menu, about to play.
InitRound ==
    /\ InitSessions
    /\ app = NewApp(TRUE, 0)
    /\ InitAppEnv
    /\ InitTraceIdle
    /\ InitStoreIdle
    /\ InitLoopIdle
    /\ InitCallsIdle

\* The round where neither positions nor the place of the target are
\* followed: every spawn gives FirstTarget.
NextRound ==
    \/ \E act \in RoundActions, is_hit \in BOOLEAN :
           round_action(act, <<0, 0>>, is_hit, FirstTarget)
    \/ round_tick(FirstTarget)
    \/ round_time_passes

SpecRound == InitRound /\ [][NextRound]_vars

\* ------------------------------------- a round with pointer positions
\* Positions of the pointer: the one App::new starts with and another.
PointerPoints == {<<0, 0>>, <<5, 5>>}

\* Handler::data with the position of the mouse event, the trace short.
pointer_event(act, pos, is_hit) ==
    /\ Len(mouse_history) < MaxPointerTrace
    /\ pointer_action(act, pos, is_hit)

InitPointer ==
    /\ InitSessions
    /\ app = NewApp(TRUE, 0)
    /\ InitAppEnv
    /\ InitTraceIdle
    /\ InitStoreIdle
    /\ InitLoopIdle
    /\ InitCallsIdle

NextPointer ==
    \/ \E act \in RoundActions, pos \in PointerPoints, is_hit \in BOOLEAN :
           pointer_event(act, pos, is_hit)
    \/ tick_applied
    \/ round_time_passes

SpecPointer == InitPointer /\ [][NextPointer]_vars

\* ----------------------------------------------- the InteractionValidator
\* Instants are whole numbers of clock ticks, TicksPerMs to the millisecond.
TicksPerSec == 1000 * TicksPerMs

\* Instant::duration_since: zero when the other instant is the later one.
duration_since(later, earlier) == IF later >= earlier THEN later - earlier ELSE 0

\* Duration::as_millis: whole milliseconds, the remainder dropped.
as_millis(d) == d \div TicksPerMs

\* f64::sqrt, on the squares that the positions used here produce.
sqrt(n) == CHOOSE r \in 0..n : r * r <= n /\ (r + 1) * (r + 1) > n

calculate_distance(p1, p2) ==
    LET dx == IF p2[1] >= p1[1] THEN p2[1] - p1[1] ELSE p1[1] - p2[1]
        dy == IF p2[2] >= p1[2] THEN p2[2] - p1[2] ELSE p1[2] - p2[2]
    IN sqrt(dx * dx + dy * dy)

\* windows(2).all: dist / duration <= max is compared as
\* dist <= max * duration, the duration being positive.
has_plausible_speed(h) ==
    \A i \in 1..(Len(h) - 1) :
        LET dist == calculate_distance(h[i].pos, h[i + 1].pos)
            duration == as_millis(duration_since(h[i + 1].time, h[i].time))
        IN duration <= 0 \/ dist <= MAX_PIXELS_PER_MS * duration

\* Speeds are held in units of SPEED_UNIT pixels per second.
SPEED_UNIT == 100

\* The speeds has_human_jitter collects from the windows i.. of h:
\* dist / as_secs_f64, for the windows of positive duration.
RECURSIVE speeds_from(_, _)
speeds_from(h, i) ==
    IF i >= Len(h) THEN <<>>
    ELSE LET dist == calculate_distance(h[i].pos, h[i + 1].pos)
             ticks == duration_since(h[i + 1].time, h[i].time)
         IN IF ticks > 0
            THEN <<(dist * (TicksPerSec \div SPEED_UNIT)) \div ticks>>
                   \o speeds_from(h, i + 1)
            ELSE speeds_from(h, i + 1)

\* Sum over i < j of (a[i] - a[j])^2: count^2 times the variance of a.
RECURSIVE pair_squares(_, _, _)
pair_squares(a, i, j) ==
    IF i >= Len(a) THEN 0
    ELSE IF j > Len(a) THEN pair_squares(a, i + 1, i + 2)
    ELSE (a[i] - a[j]) * (a[i] - a[j]) + pair_squares(a, i, j + 1)

\* Mutant of has_human_jitter: a variance equal to the threshold passes.
has_human_jitter_lenient(h) ==
    IF Len(h) < 4 THEN TRUE
    ELSE LET speeds == speeds_from(h, 1)
         IN IF Len(speeds) < 2 THEN TRUE
            ELSE LET accelerations ==
                         [i \in 1..(Len(speeds) - 1) |->
                            IF speeds[i + 1] >= speeds[i]
                            THEN speeds[i + 1] - speeds[i]
                            ELSE speeds[i] - speeds[i + 1]]
                     count == Len(accelerations)
                 IN pair_squares(accelerations, 1, 2)
                      >= (count * count)
                          \div (SPEED_UNIT * SPEED_UNIT * MIN_VARIANCE_INV)

\* variance > min_variance, with the variance in SPEED_UNIT^2 and as
\* pair_squares / count^2.
has_human_jitter(h) ==
    IF Len(h) < 4 THEN TRUE
    ELSE LET speeds == speeds_from(h, 1)
         IN IF Len(speeds) < 2 THEN TRUE
            ELSE LET accelerations ==
                         [i \in 1..(Len(speeds) - 1) |->
                            IF speeds[i + 1] >= speeds[i]
                            THEN speeds[i + 1] - speeds[i]
                            ELSE speeds[i] - speeds[i + 1]]
                     count == Len(accelerations)
                 IN pair_squares(accelerations, 1, 2)
                      > (count * count)
                          \div (SPEED_UNIT * SPEED_UNIT * MIN_VARIANCE_INV)

\* Mutant of reacted_too_fast: no reaction time is asked for.
reacted_too_fast_never(h, spawn) == FALSE

\* The reaction-speed check of is_legit_interaction.
reacted_too_fast(h, spawn) ==
    duration_since(h[Len(h)].time, spawn) < MIN_REACTION_TIME_MS * TicksPerMs

\* Mutant of warped: any click position is accepted.
warped_never(h, click) == FALSE

\* The warp check of is_legit_interaction.
warped(h, click) == h[Len(h)].pos # click

\* Mutant of is_legit_interaction: an empty trace passes.
is_legit_interaction_empty_passes(h, spawn, click) ==
    IF h = <<>> THEN TRUE
    ELSE IF reacted_too_fast(h, spawn) THEN FALSE
    ELSE IF warped(h, click) THEN FALSE
    ELSE IF 2 <= Len(h) /\ ~has_plausible_speed(h) THEN FALSE
    ELSE IF 4 <= Len(h) /\ ~has_human_jitter(h) THEN FALSE
    ELSE TRUE

is_legit_interaction(h, spawn, click) ==
    IF h = <<>> THEN FALSE
    ELSE IF reacted_too_fast(h, spawn) THEN FALSE
    ELSE IF warped(h, click) THEN FALSE
    ELSE IF 2 <= Len(h) /\ ~has_plausible_speed(h) THEN FALSE
    ELSE IF 4 <= Len(h) /\ ~has_human_jitter(h) THEN FALSE
    ELSE TRUE

\* Positions given to the validator, 30 pixels apart.
Points == {<<0, 0>>, <<18, 24>>}

\* Times between two samples: none, less than a millisecond, 1 ms, 5 ms
\* (30 pixels in 5 ms is exactly max_pixels_per_ms) and 100 ms.
Gaps == {0, 1, TicksPerMs, 5 * TicksPerMs, 100 * TicksPerMs}

\* Spawn instants: the clock's origin (the earliest time of a sample) and
\* one tick later.
SpawnTimes == {0, 1}

\* MouseTrace::new at position pos, gap after the latest sample.
sample_recorded(pos, gap) ==
    /\ Len(history) < MaxSamples
    /\ LET latest == IF history = <<>> THEN 0 ELSE history[Len(history)].time
       IN history' = Append(history, [pos |-> pos, time |-> latest + gap])
    /\ is_legit' = <<>>
    /\ UNCHANGED <<combat_stats, spawn_time, click_pos, sess_vars, app_vars,
                   trace_vars, store_vars, loop_vars>>

\* One call of is_legit_interaction on the trace recorded so far.
interaction_checked(spawn, click) ==
    /\ spawn_time' = spawn
    /\ click_pos' = click
    /\ is_legit' = <<is_legit_interaction(history, spawn, click)>>
    /\ UNCHANGED <<combat_stats, history, sess_vars, app_vars, trace_vars, store_vars,
                   loop_vars>>

InitValidator ==
    /\ InitSessions
    /\ InitAppIdle
    /\ InitTraceIdle
    /\ InitStoreIdle
    /\ InitLoopIdle
    /\ InitCallsIdle

NextValidator ==
    \/ \E pos \in Points, gap \in Gaps : sample_recorded(pos, gap)
    \/ \E spawn \in SpawnTimes, click \in Points :
           interaction_checked(spawn, click)

SpecValidator == InitValidator /\ [][NextValidator]_vars

\* ----------------------------------------------- the persistence worker
\* Fingerprints of the keys that log in, LOCAL_USER being the console user.
KeyFingerprints == <<"fp1", "fp2", "fp3", "fp4">>
StoreFingerprints ==
    {LOCAL_USER} \cup {KeyFingerprints[i] : i \in 1..MaxUsers}

\* Names a user may choose.
ChosenNames == {"a"}

\* What a finished round reports: its score, hits and misses.
RoundResults == {[score |-> 0, hits |-> 0, misses |-> 0],
                 [score |-> 120, hits |-> 1, misses |-> 0]}

\* The requests a session may send when ids up to next_id - 1 were given out.
StoreRequests(r) ==
    {[kind |-> "GetOrCreateUser", fingerprint |-> fp] :
        fp \in StoreFingerprints}
    \cup {[kind |-> "SaveGame", user_id |-> id, score |-> res.score,
           hits |-> res.hits, misses |-> res.misses] :
             id \in 1..(r.next_id - 1), res \in RoundResults}
    \cup {[kind |-> "UpdateUsername", user_id |-> id, new_name |-> name] :
             id \in 1..(r.next_id - 1), name \in ChosenNames}

\* A session puts a request on the channel (db_tx.send / try_send).
request_sent(req) ==
    /\ requests_sent < MaxStoreReqs
    /\ db_queue' = Append(db_queue, [req |-> req, seq |-> requests_sent + 1])
    /\ requests_sent' = requests_sent + 1
    /\ UNCHANGED <<repo, today, cache, worker, db_cache, app, reply,
                   loop_running, last_mouse_buttons, save_game_sent,
                   sess_vars, trace_vars, call_vars, loop_vars>>

\* Mutant of next_request: the worker takes the newest request.
next_request_newest(q) == [taken |-> q[Len(q)], left |-> SubSeq(q, 1, Len(q) - 1)]

\* rx.blocking_recv(): the oldest request on the channel.
next_request(q) == [taken |-> Head(q), left |-> Tail(q)]

\* spawn_db_worker, `while let Some(req) = rx.blocking_recv()`.
worker_recv ==
    /\ worker.pc = "recv"
    /\ db_queue # <<>>
    /\ db_queue' = next_request(db_queue).left
    /\ worker' = [worker EXCEPT !.pc = "handle",
                                !.req = <<next_request(db_queue).taken>>]
    /\ UNCHANGED <<repo, today, cache, db_cache, requests_sent, app, reply,
                   loop_running, last_mouse_buttons, save_game_sent,
                   sess_vars, trace_vars, call_vars, loop_vars>>

\* spawn_db_worker, `repo.handle_request(req)`; victim is the id of the
\* row the DELETE of enforce_user_limit takes, if it runs.
worker_handle(victim) ==
    /\ worker.pc = "handle"
    /\ \/ victim \in {u.id : u \in eviction_candidates(repo)}
       \/ (eviction_candidates(repo) = {} /\ victim = 0)
    /\ LET out == handle_request(repo, worker.req[1].req, victim, today,
                                 worker.handled + 1)
       IN /\ repo' = out.repo
          /\ worker' = [pc |-> IF out.new_cache = <<>> THEN "recv"
                               ELSE "store",
                        req |-> IF out.new_cache = <<>> THEN <<>>
                                ELSE worker.req,
                        new_cache |-> out.new_cache,
                        handled |-> worker.handled + 1,
                        ok |-> out.ok]
    /\ UNCHANGED <<today, cache, db_cache, requests_sent, db_queue, app,
                   reply, loop_running, last_mouse_buttons, save_game_sent,
                   sess_vars, trace_vars, call_vars, loop_vars>>

\* Mutant of swapped: the lists are replaced one at a time, the daily one
\* first.
swapped_daily_first(old, new) == [old EXCEPT !.daily_scores = new.daily_scores]

\* ArcSwap::store: the shared pointer now points to the new DbCache.
swapped(old, new) == new

\* spawn_db_worker, `cache.store(Arc::new(new_cache))`.
worker_store ==
    /\ worker.pc = "store"
    /\ cache' = swapped(cache, worker.new_cache[1])
    /\ worker' = WorkerAtRecv(worker.handled, worker.ok)
    /\ UNCHANGED <<repo, today, db_cache, requests_sent, db_queue, app,
                   reply, loop_running, last_mouse_buttons, save_game_sent,
                   sess_vars, trace_vars, call_vars, loop_vars>>

\* run_render_loop, `app.db_cache = shared_cache.load_full()`.
cache_loaded ==
    /\ db_cache' = cache
    /\ UNCHANGED <<repo, today, cache, worker, requests_sent, db_queue, app,
                   reply, loop_running, last_mouse_buttons, save_game_sent,
                   sess_vars, trace_vars, call_vars, loop_vars>>

\* Midnight passes.
day_passes(last_day) ==
    /\ today < last_day
    /\ today' = today + 1
    /\ UNCHANGED <<repo, cache, worker, db_cache, requests_sent, db_queue,
                   app, reply, loop_running, last_mouse_buttons,
                   save_game_sent, sess_vars, trace_vars, call_vars,
                   loop_vars>>

\* The tables main may find in the database file and leave behind before it
\* spawns the worker: the console user exists (get_or_create_user_context
\* of LOCAL_USER), renamed or not, with or without a score.
InitialRepos ==
    {LET created == create_user(EmptyRepo(fk), LOCAL_USER, DEFAULT_NAME, 0).repo
         named == IF renamed THEN update_username(created, 1, LOCAL_USER).repo
                  ELSE created
     IN IF res.score > 0
        THEN save_game(named, 1, res.score, res.hits, res.misses, 0).repo
        ELSE named :
       fk \in BOOLEAN, renamed \in BOOLEAN, res \in RoundResults}

\* shootsh_cli main: the repository, the shared cache made of its first
\* snapshot, the empty channel, the worker thread at its recv.
InitWorker ==
    /\ InitSessions
    /\ InitAppIdle
    /\ InitTraceIdle
    /\ InitLoopIdle
    /\ InitCallsIdle
    /\ repo \in InitialRepos
    /\ today = 0
    /\ cache = get_current_cache(repo, 0, 0)
    /\ worker = WorkerAtRecv(0, TRUE)
    /\ db_cache = cache
    /\ requests_sent = 0

NextWorker ==
    \/ \E req \in StoreRequests(repo) : request_sent(req)
    \/ worker_recv
    \/ \E victim \in UserIds(repo) \cup {0} : worker_handle(victim)
    \/ worker_store
    \/ cache_loaded
    \/ day_passes(MaxWorkerDay)

SpecWorker == InitWorker /\ [][NextWorker]_vars

\* -------------------------------------------- one user's stats, by rounds
\* Rounds of one user are persisted, days pass between them.
round_persisted(res) ==
    /\ requests_sent < MaxRounds
    /\ requests_sent' = requests_sent + 1
    /\ repo' = save_game(repo, 1, res.score, res.hits, res.misses, today).repo
    /\ UNCHANGED <<today, cache, worker, db_cache, db_queue, app, reply,
                   loop_running, last_mouse_buttons, save_game_sent,
                   sess_vars, trace_vars, call_vars, loop_vars>>

StatsResults == RoundResults \cup {[score |-> 260, hits |-> 2, misses |-> 1]}

InitStats ==
    /\ InitSessions
    /\ InitAppIdle
    /\ InitTraceIdle
    /\ InitLoopIdle
    /\ InitCallsIdle
    /\ repo = create_user(EmptyRepo(TRUE), LOCAL_USER, DEFAULT_NAME, 0).repo
    /\ today = 0
    /\ cache = get_current_cache(repo, 0, 0)
    /\ worker = WorkerAtRecv(0, TRUE)
    /\ db_cache = cache
    /\ requests_sent = 0

NextStats ==
    \/ \E res \in StatsResults : round_persisted(res)
    \/ day_passes(MaxDay)

SpecStats == InitStats /\ [][NextStats]_vars

\* ------------------------------------------------ CombatStats on its own
\* A CombatStats from CombatStats::new, driven by register_hit and
\* register_miss in any order.
InitCombat ==
    /\ InitSessions
    /\ InitAppIdle
    /\ InitTraceIdle
    /\ InitStoreIdle
    /\ InitLoopIdle
    /\ InitCallsIdle

hit_registered ==
    /\ combat_stats.hit_count < MaxCombatHits
    /\ combat_stats' = register_hit(combat_stats)
    /\ UNCHANGED <<history, spawn_time, click_pos, is_legit,
                   sess_vars, app_vars, trace_vars, store_vars, loop_vars>>

miss_registered ==
    /\ combat_stats' = register_miss(combat_stats)
    /\ UNCHANGED <<history, spawn_time, click_pos, is_legit,
                   sess_vars, app_vars, trace_vars, store_vars, loop_vars>>

NextCombat == hit_registered \/ miss_registered

SpecCombat == InitCombat /\ [][NextCombat]_vars

\* The same CombatStats hit after hit, its target lifetime read each time.
InitLifetime ==
    /\ InitSessions
    /\ InitAppIdle
    /\ InitTraceIdle
    /\ InitStoreIdle
    /\ InitLoopIdle
    /\ InitCallsIdle

hit_shortens_lifetime ==
    /\ combat_stats.hit_count < MaxLifetimeHits
    /\ combat_stats' = register_hit(combat_stats)
    /\ UNCHANGED <<history, spawn_time, click_pos, is_legit,
                   sess_vars, app_vars, trace_vars, store_vars, loop_vars>>

NextLifetime == hit_shortens_lifetime

SpecLifetime == InitLifetime /\ [][NextLifetime]_vars

\* --------------------------------------------------- claims on CombatStats
\* The term a hit adds when the combo counts c hits, this one included.
HitTerm(c) ==
    (BASE_HIT_VALUE
        * Min(INITIAL_MULTIPLIER_X10 + COMBO_MULTIPLIER_STEP_X10 * c,
              MAX_MULTIPLIER_X10)) \div 10

RECURSIVE StreakSum(_)
StreakSum(n) == IF n = 0 THEN 0 ELSE StreakSum(n - 1) + HitTerm(n)

\* The step is a register_hit.
HitStep == combat_stats'.hit_count = combat_stats.hit_count + 1

\* C11: as long as no miss followed a hit (the combo counts every hit), the
\* score after N hits is the sum of the terms i = 1..N; a hit that follows
\* a miss adds the i = 1 term.
C11_StreakScore ==
    /\ [](combat_stats.combo = combat_stats.hit_count =>
            combat_stats.score = StreakSum(combat_stats.hit_count))
    /\ [][(HitStep /\ combat_stats.combo = 0) =>
            combat_stats'.score = combat_stats.score + HitTerm(1)]_vars

\* Witness of C11: an unbroken streak long enough to reach the cap.
C11_Witness ==
    /\ combat_stats.combo = combat_stats.hit_count
    /\ combat_stats.hit_count = MaxCombatHits
    /\ combat_stats.score = StreakSum(MaxCombatHits)

\* C12 as stated: a hit adds the term of the combo count before the hit
\* (so the first hit of a streak adds BASE_HIT_VALUE) and then increments
\* the combo.
C12_TermOfComboBeforeHit ==
    [][HitStep =>
        /\ combat_stats'.score =
               combat_stats.score + HitTerm(combat_stats.combo)
        /\ combat_stats'.combo = combat_stats.combo + 1]_vars

\* C12 as amended: a hit first increments the combo and then adds the term
\* of the incremented count, so the first hit of a streak adds
\* BASE_HIT_VALUE * (1 + step).
C12_TermOfComboAfterHit ==
    [][HitStep =>
        /\ combat_stats'.combo = combat_stats.combo + 1
        /\ combat_stats'.score =
               combat_stats.score + HitTerm(combat_stats.combo + 1)
        /\ (combat_stats.combo = 0 =>
               combat_stats'.score - combat_stats.score
                   = (BASE_HIT_VALUE
                        * (INITIAL_MULTIPLIER_X10 + COMBO_MULTIPLIER_STEP_X10))
                     \div 10)]_vars

\* Witness of C12: the first hit of a second streak has been scored.
C12_Witness ==
    /\ combat_stats.hit_count = 3
    /\ combat_stats.combo = 1
    /\ combat_stats.score = StreakSum(2) + HitTerm(1)

\* The lifetime of the target once one more hit is registered.
LifetimeAfterNextHit == get_target_lifetime(register_hit(combat_stats))

\* C14 as stated: the lifetime is MAX_TARGET_LIFETIME_MS at hit count 0 and
\* strictly smaller after every further hit.
C14_LifetimeStrictlyDecreasing ==
    /\ (combat_stats.hit_count = 0 =>
           get_target_lifetime(combat_stats) = MAX_TARGET_LIFETIME_MS)
    /\ LifetimeAfterNextHit < get_target_lifetime(combat_stats)

\* The lifetime below which truncation to whole milliseconds can hide the
\* decay of one hit: the real decay of one hit is lifetime * (1 - rate).
StrictAboveMs == 100 \div (100 - DECAY_RATE_X100)

\* C14 as amended: the lifetime is MAX_TARGET_LIFETIME_MS at hit count 0,
\* never grows with a hit, is strictly smaller after a hit while it is at
\* least StrictAboveMs (20 ms), and has reached 0 at hit count 149.
C14_LifetimeNonIncreasing ==
    /\ (combat_stats.hit_count = 0 =>
           get_target_lifetime(combat_stats) = MAX_TARGET_LIFETIME_MS)
    /\ LifetimeAfterNextHit <= get_target_lifetime(combat_stats)
    /\ (get_target_lifetime(combat_stats) >= StrictAboveMs =>
           LifetimeAfterNextHit < get_target_lifetime(combat_stats))
    /\ (combat_stats.hit_count >= 149 =>
           get_target_lifetime(combat_stats) = 0)

\* Witness of C14: the hit count at which truncation first hides the decay.
C14_Witness ==
    /\ combat_stats.hit_count = 93
    /\ get_target_lifetime(combat_stats) = 16
    /\ LifetimeAfterNextHit = 16

\* ------------------------------------------------------ claims on a round
InRound == app.scene.type = "Playing"

\* A step in which Action::Restart is applied.
RestartStep == action_applied(Act("Restart"), FALSE)

\* A step in which a click on the target is confirmed as a hit.
ConfirmedHitStep ==
    /\ InRound
    /\ click_verdict(app, mouse_history, TRUE) = "hit"
    /\ action_applied(Act("MouseClick"), TRUE)

\* A step in which a tick finds the target expired.
ExpiryStep ==
    /\ InRound
    /\ app.scene.scene_start < RoundMs
    /\ is_expired(app.scene.last_target_spawn, app.scene.combat_stats)
    /\ tick_applied

\* A step in which a round starts: Playing is entered, or restarted.
RoundStartStep ==
    /\ InRound'
    /\ ~InRound \/ RestartStep

\* C13: within one round (Playing entered, not yet left or restarted) no
\* step lowers the score, and only a confirmed hit changes it.
C13_ScoreOnlyGrowsOnHit ==
    [][(InRound /\ InRound' /\ ~RestartStep)
         => /\ app'.scene.combat_stats.score >= app.scene.combat_stats.score
            /\ app'.scene.combat_stats.score # app.scene.combat_stats.score
                  => ConfirmedHitStep]_vars

\* Witness of C13: two confirmed hits, then a miss or an expiry, which
\* ended the streak and left the score of the two hits in place.
C13_Witness ==
    /\ InRound
    /\ app.scene.combat_stats.hit_count = 2
    /\ app.scene.combat_stats.combo = 0
    /\ app.scene.combat_stats.score = StreakSum(2)
    /\ mouse_history # <<>>

\* C15: the pointer trace never holds more than 50 samples.
C15_TraceWithinCapacity == Len(mouse_history) <= MOUSE_HISTORY_CAP

AllForCurrentTarget ==
    \A i \in DOMAIN mouse_history : mouse_history[i].for_current_target

\* C16, as stated: after every target change (round start or restart,
\* confirmed hit, expiry) the trace is empty, and the trace never holds a
\* sample recorded for a previous target.
C16_EmptyAfterEveryTargetChange ==
    /\ [][(RoundStartStep \/ ConfirmedHitStep \/ ExpiryStep)
            => mouse_history' = <<>>]_vars
    /\ []AllForCurrentTarget

\* C16, amended: after a confirmed hit or an expiry the trace is empty;
\* after a round start or restart it holds exactly the one sample recorded
\* at that moment; the trace never holds a sample recorded for a previous
\* target.
C16_NoSampleOfPreviousTarget ==
    /\ [][(ConfirmedHitStep \/ ExpiryStep) => mouse_history' = <<>>]_vars
    /\ [][RoundStartStep => mouse_history' = <<Sample>>]_vars
    /\ []AllForCurrentTarget

\* Witness of C16: a confirmed hit has just replaced the target, after
\* samples had been recorded for the previous one.
C16_Witness ==
    /\ InRound
    /\ app.scene.combat_stats.hit_count = 1
    /\ app.scene.combat_stats.combo = 1
    /\ app.scene.last_target_spawn = 0
    /\ app.scene.scene_start > 0
    /\ mouse_history = <<>>

\* ------------------------------------------------ claims on the validator
Checked == is_legit # <<>>

LastSample == history[Len(history)]

\* C17: on a trace with 0 samples is_legit_interaction returns false, for
\* every spawn time and every click position.
C17_EmptyTraceRejected ==
    (Checked /\ history = <<>>) => is_legit = <<FALSE>>

\* Witness of C17: the empty trace was checked with a spawn time and a
\* click position other than the initial ones.
C17_Witness ==
    /\ Checked
    /\ history = <<>>
    /\ spawn_time = 1
    /\ click_pos = <<18, 24>>

\* C18: when the last sample's time minus the spawn time is below 100 ms,
\* is_legit_interaction returns false, whatever the positions are.
C18_FastReactionRejected ==
    (Checked /\ history # <<>>
       /\ LastSample.time - spawn_time < MIN_REACTION_TIME_MS * TicksPerMs)
      => is_legit = <<FALSE>>

\* Witness of C18: a single sample at the click position, one tick short
\* of 100 ms after the spawn.
C18_Witness ==
    /\ Checked
    /\ Len(history) = 1
    /\ LastSample.pos = click_pos
    /\ LastSample.time - spawn_time = MIN_REACTION_TIME_MS * TicksPerMs - 1

\* C19: when the last sample's position differs from the click position,
\* is_legit_interaction returns false.
C19_WarpRejected ==
    (Checked /\ history # <<>> /\ LastSample.pos # click_pos)
      => is_legit = <<FALSE>>

\* Witness of C19: a single sample, late enough after the spawn, away from
\* the click position.
C19_Witness ==
    /\ Checked
    /\ Len(history) = 1
    /\ LastSample.time - spawn_time >= MIN_REACTION_TIME_MS * TicksPerMs
    /\ LastSample.pos # click_pos

\* A consecutive pair with nonzero elapsed time whose distance per elapsed
\* millisecond is above maxPixelsPerMs.
TooFastPair(i) ==
    LET ticks == history[i + 1].time - history[i].time
        dist == calculate_distance(history[i].pos, history[i + 1].pos)
    IN ticks > 0 /\ dist * TicksPerMs > MAX_PIXELS_PER_MS * ticks

\* C20: when any consecutive pair of the trace with nonzero elapsed time
\* moves faster than 6 pixels per millisecond, is_legit_interaction
\* returns false.
C20_TooFastPairRejected ==
    (Checked /\ \E i \in 1..(Len(history) - 1) : TooFastPair(i))
      => is_legit = <<FALSE>>

\* Every segment of the trace covers dist pixels in step ticks.
UniformSegments(dist, step) ==
    \A i \in 1..(Len(history) - 1) :
        /\ history[i + 1].time - history[i].time = step
        /\ calculate_distance(history[i].pos, history[i + 1].pos) = dist

\* Some distance and some positive time step are shared by all segments.
ConstantSpeed ==
    \E i \in 1..(Len(history) - 1) :
        /\ history[i + 1].time > history[i].time
        /\ UniformSegments(
               calculate_distance(history[i].pos, history[i + 1].pos),
               history[i + 1].time - history[i].time)

\* C21: a trace of at least 4 samples whose segments all have the same
\* speed (the same distance in the same positive time step) is rejected:
\* the variance of its accelerations is 0.
C21_ConstantSpeedRejected ==
    (Checked /\ Len(history) >= 4 /\ ConstantSpeed) => is_legit = <<FALSE>>

\* Witness of C21: such a trace, moving, that passes the reaction-time,
\* warp and speed checks.
C21_Witness ==
    /\ Checked
    /\ Len(history) >= 4
    /\ ConstantSpeed
    /\ history[1].pos # history[2].pos
    /\ ~reacted_too_fast(history, spawn_time)
    /\ ~warped(history, click_pos)
    /\ has_plausible_speed(history)

\* ------------------------------------------ claims on clicks and warnings
\* C22: a click in Playing inside the target's hit region, made at a
\* position other than that of the latest pointer move (a warp), is not
\* counted as a hit: it is registered as a miss and raises the warning.
C22_WarpClickIsMiss ==
    [][\A pos \in PointerPoints :
          (InRound /\ mouse_pos # pos
             /\ pointer_event(Act("MouseClick"), pos, TRUE))
            => /\ app'.scene.combat_stats.hit_count
                    = app.scene.combat_stats.hit_count
               /\ app'.scene.combat_stats.combo = 0
               /\ app'.last_cheat_warning = 0]_vars

\* A step in which a click on the target is rejected by the analyzer.
RejectedStep ==
    /\ InRound
    /\ click_verdict(app, mouse_history, TRUE) = "rejected"
    /\ action_applied(Act("MouseClick"), TRUE)

WarningStands == app.last_cheat_warning # NoWarning

\* C23: a rejected click returns Ok, is registered as a miss (combo 0, score
\* and hit count unchanged) and sets the warning; the warning is cleared
\* by a Tick applied when it is at least 2 seconds old, and by nothing else.
C23_RejectionIsMissWithWarning ==
    /\ [][RejectedStep
            => /\ handle_click_result(app, "rejected") = "Ok"
               /\ InRound'
               /\ app'.scene.combat_stats.combo = 0
               /\ app'.scene.combat_stats.score = app.scene.combat_stats.score
               /\ app'.scene.combat_stats.hit_count
                    = app.scene.combat_stats.hit_count
               /\ app'.last_cheat_warning = 0]_vars
    /\ [][(WarningStands /\ ~WarningStands')
            => (tick_applied /\ app.last_cheat_warning >= WarningMs)]_vars
    /\ [][(tick_applied /\ WarningStands
              /\ app.last_cheat_warning >= WarningMs)
            => ~WarningStands']_vars

\* Witness of C23: a hit, then a rejected click whose warning, one clock
\* step old, still stands.
C23_Witness ==
    /\ InRound
    /\ app.scene.combat_stats.hit_count = 1
    /\ app.scene.combat_stats.combo = 0
    /\ app.scene.combat_stats.score = StreakSum(1)
    /\ app.last_cheat_warning = RoundStepMs
    /\ RoundStepMs < WarningMs

\* ------------------------------------------------ claims on round finalize
\* A step in which a tick finds the round's time over and finalizes it.
FinalizeStep ==
    /\ InRound
    /\ app.scene.scene_start >= RoundMs
    /\ tick_applied

\* C24: at round finalize the record flag is true exactly when the final
\* score is strictly above the in-memory high score of before, and the
\* high score becomes the larger of the two; no step lowers the high score.
C24_RecordFlagAndHighScore ==
    /\ [][FinalizeStep
            => /\ app'.scene.type = "GameOver"
               /\ app'.scene.final_score = app.scene.combat_stats.score
               /\ app'.scene.is_new_record
                    = (app.scene.combat_stats.score > app.user.high_score)
               /\ app'.user.high_score
                    = IF app.scene.combat_stats.score > app.user.high_score
                      THEN app.scene.combat_stats.score
                      ELSE app.user.high_score]_vars
    /\ [][app'.user.high_score >= app.user.high_score]_vars

\* Witness of C24: a round finalized with a positive score below the high
\* score that an earlier round had set.
C24_Witness ==
    /\ app.scene.type = "GameOver"
    /\ app.scene.final_score = StreakSum(1)
    /\ ~app.scene.is_new_record
    /\ app.user.high_score = StreakSum(2)

\* ------------------------------------------- claims on the persistence worker
\* A step in which the worker handles the request it holds.
HandleStep == \E victim \in UserIds(repo) \cup {0} : worker_handle(victim)

\* The request the worker holds.
InHand == worker.req[1].req

\* Requests taken from the channel and not yet counted as handled.
Taken == IF worker.pc = "handle" THEN 1 ELSE 0

\* C25: the worker handles the requests one at a time in the order they
\* were sent: it takes the next one only when the previous one is handled
\* and its snapshot, if any, published; and only the worker's handling of a
\* request changes the store.
C25_OneAtATimeInOrder ==
    /\ [](\A i \in DOMAIN db_queue :
             db_queue[i].seq = worker.handled + Taken + i)
    /\ [](worker.pc # "recv" => worker.req[1].seq = worker.handled + Taken)
    /\ [][Len(db_queue') < Len(db_queue)
            => (worker.pc = "recv" /\ worker.new_cache = <<>>
                /\ worker'.req = <<Head(db_queue)>>)]_vars
    /\ [][repo' # repo => HandleStep]_vars

\* Witness of C25: the second request is handled and its snapshot waits to
\* be published while the third waits on the channel.
C25_Witness ==
    /\ worker.pc = "store"
    /\ worker.handled = 2
    /\ Len(db_queue) = 1

Entries(c) ==
    <<c.daily_scores.entries, c.weekly_scores.entries,
      c.all_time_scores.entries>>

\* C26, as stated: after every request that succeeds and changes the store
\* the worker publishes a snapshot recomputed from the store; after a
\* request that fails the published snapshot is unchanged.
C26_PublishAfterEveryMutation ==
    /\ [][(HandleStep /\ worker'.ok /\ repo' # repo)
            => /\ worker'.pc = "store"
               /\ worker'.new_cache
                    = <<get_current_cache(repo', today, worker'.handled)>>]_vars
    /\ [][(HandleStep /\ ~worker'.ok) => worker'.pc = "recv"]_vars
    /\ [][cache' # cache
            => (worker.pc = "store" /\ cache' = worker.new_cache[1])]_vars

\* C26, amended: a persist-round or rename request that succeeds is
\* followed by the publication of a snapshot recomputed from the store
\* after it; fetch-or-create publishes nothing, and what it creates or
\* evicts leaves the recomputed lists as they were; after a request that
\* fails the published snapshot is unchanged.
C26_PublishAfterSaveOrRename ==
    /\ [][(HandleStep /\ worker'.ok /\ InHand.kind # "GetOrCreateUser")
            => /\ worker'.pc = "store"
               /\ worker'.new_cache
                    = <<get_current_cache(repo', today, worker'.handled)>>]_vars
    /\ [][(HandleStep /\ InHand.kind = "GetOrCreateUser")
            => /\ worker'.pc = "recv"
               /\ Entries(get_current_cache(repo', today, 0))
                    = Entries(get_current_cache(repo, today, 0))]_vars
    /\ [][(HandleStep /\ ~worker'.ok) => worker'.pc = "recv"]_vars
    /\ [][cache' # cache
            => (worker.pc = "store" /\ cache' = worker.new_cache[1])]_vars

\* Witness of C26: the snapshot of the second request, which lists a
\* score, has been published.
C26_Witness ==
    /\ worker.pc = "recv"
    /\ worker.handled = 2
    /\ cache.all_time_scores.generation = 2
    /\ cache.all_time_scores.entries # <<>>

SameGeneration(c) ==
    /\ c.daily_scores.generation = c.weekly_scores.generation
    /\ c.weekly_scores.generation = c.all_time_scores.generation

\* C27: the snapshot a session has loaded, whenever it loaded it, has its
\* three lists from one and the same publication.
C27_SnapshotOfOneGeneration ==
    SameGeneration(db_cache) /\ SameGeneration(cache)

\* Witness of C27: a session holds a published snapshot while a newer one
\* has already been published.
C27_Witness ==
    /\ db_cache.daily_scores.generation >= 1
    /\ cache.daily_scores.generation > db_cache.daily_scores.generation

NonzeroScore(r) == {u \in r.users : high_score_or_zero(r, u.id) # 0}

\* C28: at the cap, fetch-or-create of an absent fingerprint either evicts
\* exactly one identity, one of the oldest without a score, and creates
\* the new one, or fails and evicts nothing, there being no identity
\* without a score; no request evicts an identity that has a score.
C28_EvictOneZeroScoreOrFail ==
    /\ [][(HandleStep /\ InHand.kind = "GetOrCreateUser"
             /\ InHand.fingerprint \notin {u.fingerprint : u \in repo.users}
             /\ Cardinality(repo.users) >= MaxUsers)
            => \/ /\ worker'.ok
                  /\ \E v \in eviction_candidates(repo) :
                        /\ {u \in repo'.users : u.id # repo.next_id}
                             = repo.users \ {v}
                        /\ \E n \in repo'.users :
                              /\ n.id = repo.next_id
                              /\ n.fingerprint = InHand.fingerprint
               \/ /\ ~worker'.ok
                  /\ eviction_candidates(repo) = {}
                  /\ repo'.users = repo.users]_vars
    /\ [][\A u \in NonzeroScore(repo) : u.id \in UserIds(repo')]_vars

\* C29: a request that the worker reports as failed leaves the users and
\* the stats rows as they were.
C29_FailedRequestChangesNothing ==
    [][(HandleStep /\ ~worker'.ok)
         => (repo'.users = repo.users
             /\ repo'.user_stats = repo.user_stats)]_vars

\* ------------------------------------------------- claims on the stats row
\* What is stored for the console user: its stats row, or no score under
\* markers of no period when it has none.
Stored(r) ==
    IF StatsRows(r, 1) = {}
    THEN [user_id |-> 1, high_score |-> 0, high_score_at |-> -1,
          daily_high_score |-> 0, daily_high_score_at |-> -1,
          weekly_high_score |-> 0, weekly_high_score_at |-> -1,
          total_hits |-> 0, total_misses |-> 0, sessions |-> 0]
    ELSE CHOOSE s \in StatsRows(r, 1) : TRUE

\* C30: persisting a round makes the all-time high score the larger of the
\* stored and the new one, the daily (weekly) high score the new score
\* when the stored day (week) is not the current one and the larger of
\* the two otherwise, sets both markers to the current period, adds the
\* round's hits and misses and counts one more session.
C30_PeriodsRollForward ==
    [][\A res \in StatsResults : round_persisted(res) =>
         LET old == Stored(repo)
             new == Stored(repo')
         IN /\ Cardinality(StatsRows(repo', 1)) = 1
            /\ new.high_score = Larger(old.high_score, res.score)
            /\ new.daily_high_score
                 = IF old.daily_high_score_at # today THEN res.score
                   ELSE Larger(old.daily_high_score, res.score)
            /\ new.weekly_high_score
                 = IF old.weekly_high_score_at # week_of(today)
                   THEN res.score
                   ELSE Larger(old.weekly_high_score, res.score)
            /\ new.daily_high_score_at = today
            /\ new.weekly_high_score_at = week_of(today)
            /\ new.total_hits = old.total_hits + res.hits
            /\ new.total_misses = old.total_misses + res.misses
            /\ new.sessions = old.sessions + 1]_vars

\* Witness of C30: three rounds, the second in a later week than the first
\* and the third on a later day of that week, each scoring less than the
\* one before.
C30_Witness ==
    /\ Stored(repo).sessions = 3
    /\ Stored(repo).high_score = 260
    /\ Stored(repo).weekly_high_score = 120
    /\ Stored(repo).daily_high_score = 0
    /\ Stored(repo).daily_high_score_at = MaxDay

\* --------------------------------------------- claims on repeated requests
\* C31: persisting the same round a second time in the same period leaves
\* the store as the first time left it.
C31_SaveGameIdempotent ==
    [][\A res \in StatsResults : round_persisted(res) =>
         save_game(repo', 1, res.score, res.hits, res.misses, today).repo
           = repo']_vars

\* ------------------------------------- the render loop and its wake sources
\* Signals the update channel is let to hold.
MaxUpdates == 2

\* mpsc::UnboundedSender::send(()) on update_tx.
signalled(n) == Min(n + 1, MaxUpdates)

\* The App after dt more milliseconds on the clock.
aged(a, dt) ==
    LET a1 == [a EXCEPT
                 !.last_scene_change = AgeBy(@, dt, GAME_OVER_COOLDOWN_MS),
                 !.last_cheat_warning =
                     IF @ = NoWarning THEN @ ELSE AgeBy(@, dt, WarningMs)]
    IN IF a.scene.type = "Playing"
       THEN [a1 EXCEPT
               !.scene.scene_start = AgeBy(@, dt, RoundMs),
               !.scene.last_target_spawn =
                   AgeBy(@, dt, MAX_TARGET_LIFETIME_MS)]
       ELSE a1

\* Mutant of wake_ready: the loop waits for the interval alone.
wake_ready_timer_only(wake) ==
    \/ wake = "timer" /\ interval_ready
    \/ wake = "closed"

\* The select! of run_render_loop can complete on this branch.
wake_ready(wake) ==
    \/ wake = "timer" /\ interval_ready
    \/ wake = "update" /\ update_rx > 0
    \/ wake = "closed"

\* One iteration of run_render_loop: select! completes on one branch; on
\* a closed update channel the loop is left, otherwise the snapshot is
\* loaded, a Tick applied, the frame sent, and the loop is left on a send
\* error or on should_quit.
loop_iteration(wake, send_failed) ==
    /\ loop_running
    /\ wake_ready(wake)
    /\ last_wake' = wake
    /\ interval_ready' = IF wake = "timer" THEN FALSE ELSE interval_ready
    /\ update_rx' = IF wake = "update" THEN update_rx - 1 ELSE update_rx
    /\ IF wake = "closed"
       THEN /\ ~send_failed
            /\ loop_running' = FALSE
            /\ UNCHANGED <<app, db_queue, reply, save_game_sent, db_cache>>
       ELSE LET room == HasRoom
                r == update_state(app, Act("Tick"), room, "miss")
            IN /\ app' = r.app
               /\ Submit(r, room)
               /\ db_cache' = cache
               /\ loop_running' = ~(send_failed \/ r.app.should_quit)
    /\ UNCHANGED <<last_mouse_buttons, repo, today, cache, worker,
                   requests_sent, sess_vars, trace_vars, call_vars>>

\* Handler::data while no round is under way: the events are applied and,
\* when there was any, the loop is signalled. Whether an event that maps
\* to no action counts is left open.
input_arrives(event, verdict, counted) ==
    /\ app.scene.type # "Playing"
    /\ verdict = "miss"
    /\ LET act == map_input_to_action(event, input_captured(app),
                                      last_mouse_buttons)
           room == HasRoom
           r == IF act = NoAction THEN Ret(app)
                ELSE update_state(app, act, room, verdict)
       IN /\ (act.kind = "AppendCharacter" /\ app.scene.type = "Naming")
                => app.scene.input < MaxTyped
          /\ act # NoAction => counted
          /\ app' = r.app
          /\ Submit(r, room)
          /\ update_rx' = IF counted THEN signalled(update_rx) ELSE update_rx
    /\ last_mouse_buttons' = IF event.dev = "mouse" THEN event.left
                             ELSE last_mouse_buttons
    /\ UNCHANGED <<loop_running, interval_ready, last_wake, sess_vars,
                   trace_vars, call_vars, store_vars>>

\* Handler::window_change_request: the size is stored, the loop signalled.
window_change_request ==
    /\ update_rx' = signalled(update_rx)
    /\ UNCHANGED <<app_vars, interval_ready, last_wake, sess_vars,
                   trace_vars, call_vars, store_vars>>

\* The clock moves on by more than the interval's period: a tick is due.
interval_elapses ==
    /\ app' = aged(app, TimeStepMs)
    /\ interval_ready' = TRUE
    /\ UNCHANGED <<db_queue, reply, loop_running, last_mouse_buttons,
                   save_game_sent, update_rx, last_wake, sess_vars,
                   trace_vars, call_vars, store_vars>>

\* The worker takes a request off the channel.
request_drained == \E outcome \in {"ok", "err"} : worker_step(outcome)

InitIdle ==
    /\ InitSessions
    /\ InitAppIdle
    /\ InitTraceIdle
    /\ InitStoreIdle
    /\ InitLoopIdle
    /\ InitCallsIdle

NextIdle ==
    \/ \E wake \in {"timer", "update", "closed"}, send_failed \in BOOLEAN :
           loop_iteration(wake, send_failed)
    \/ \E event \in Events, counted \in BOOLEAN :
           input_arrives(event, "miss", counted)
    \/ window_change_request
    \/ interval_elapses
    \/ request_drained

SpecIdle == InitIdle /\ [][NextIdle]_vars

\* The clock moves on and a due tick of the interval wakes the loop.
FairIdle ==
    /\ SpecIdle
    /\ WF_vars(interval_elapses)
    /\ WF_vars(loop_iteration("timer", FALSE))

\* ------------------------------------------------ claims on the render loop
\* C32: a session in a round that receives no input is woken by the
\* interval, so that it reaches GameOver unless its loop has ended first;
\* and a signal on the update channel lets the loop iterate whether or not
\* a tick of the interval is due, an input that maps to an action and a
\* resize each leaving such a signal.
C32_IdleSessionTicks ==
    /\ (app.scene.type = "Playing" /\ loop_running)
          ~> (app.scene.type = "GameOver" \/ ~loop_running)
    /\ []((loop_running /\ update_rx > 0)
             => ENABLED loop_iteration("update", FALSE))
    /\ [][\A event \in Events :
            (input_arrives(event, "miss", TRUE)
             /\ map_input_to_action(event, input_captured(app),
                                    last_mouse_buttons) # NoAction)
               => update_rx' = Min(update_rx + 1, MaxUpdates)]_vars
    /\ [][window_change_request
            => update_rx' = Min(update_rx + 1, MaxUpdates)]_vars

\* Witness of C32: the round has ended on a tick of the interval, with no
\* signal left on the update channel.
C32_Witness ==
    /\ app.scene.type = "GameOver"
    /\ last_wake = "timer"
    /\ update_rx = 0
    /\ loop_running

\* -------------------------------------------- claims on the round's target
\* A click in a round that is not a confirmed hit.
MissStep(is_hit) ==
    /\ InRound
    /\ click_verdict(app, mouse_history, is_hit) # "hit"
    /\ action_applied(Act("MouseClick"), is_hit)

\* C33: a click of a round that misses the target or is rejected leaves
\* the target, the score and the hit count as they were and sets combo to
\* 0; within a round the target is replaced only by a confirmed hit or an
\* expiry.
C33_MissKeepsTarget ==
    /\ [][\A is_hit \in BOOLEAN : MissStep(is_hit) =>
            /\ InRound'
            /\ target' = target
            /\ app'.scene.combat_stats.score = app.scene.combat_stats.score
            /\ app'.scene.combat_stats.hit_count
                 = app.scene.combat_stats.hit_count
            /\ app'.scene.combat_stats.combo = 0]_vars
    /\ [][(InRound /\ InRound' /\ target' # target)
            => (ConfirmedHitStep \/ ExpiryStep \/ RestartStep)]_vars

\* Witness of C33: after a hit, a click of the same round has missed the
\* target it was aimed at, which is still there.
C33_Witness ==
    /\ InRound
    /\ target \in Targets
    /\ app.scene.combat_stats.hit_count = 1
    /\ app.scene.combat_stats.combo = 0
    /\ app.scene.combat_stats.score = StreakSum(1)
    /\ mouse_history # <<>>
    /\ app.scene.last_target_spawn = 0

\* C34: a Tick in a round finalizes the round when its time is up, and
\* then no target remains; otherwise, when the target has reached its
\* lifetime, it registers one miss, puts a fresh target, restarts the
\* target's clock and empties the trace; otherwise it leaves target, stats
\* and trace as they were. A Tick outside a round leaves the scene as it is.
C34_TickInRound ==
    /\ [][FinalizeStep =>
            /\ app'.scene.type = "GameOver"
            /\ target' = NoTarget]_vars
    /\ [][ExpiryStep =>
            /\ InRound'
            /\ app'.scene.combat_stats
                 = register_miss(app.scene.combat_stats)
            /\ target' \in Targets
            /\ app'.scene.last_target_spawn = 0
            /\ mouse_history' = <<>>]_vars
    /\ [][(tick_applied /\ InRound /\ ~FinalizeStep /\ ~ExpiryStep) =>
            /\ InRound'
            /\ target' = target
            /\ app'.scene.combat_stats = app.scene.combat_stats
            /\ app'.scene.last_target_spawn = app.scene.last_target_spawn
            /\ mouse_history' = mouse_history]_vars
    /\ [][(tick_applied /\ ~InRound) => app'.scene = app.scene]_vars

\* Witness of C34: no hit so far in the round, and the target has just
\* been replaced on its expiry.
C34_Witness ==
    /\ InRound
    /\ app.scene.combat_stats.hit_count = 0
    /\ app.scene.scene_start > 0
    /\ app.scene.last_target_spawn = 0
    /\ mouse_history = <<>>
    /\ target \in Targets

\* C35: every miss registered in a round, be it a click off the target, a
\* rejected click or an expiry, adds one to the miss count that the end of
\* the round submits.
C35_MissesCounted ==
    [][((\E is_hit \in BOOLEAN : MissStep(is_hit)) \/ ExpiryStep)
         => submitted_stats(app'.scene.combat_stats).misses
              = submitted_stats(app.scene.combat_stats).misses + 1]_vars

\* ------------------------------------------- the cooldown of the GameOver scene
\* Steps of the clock while the outcome of a round is shown.
FineStepMs == 1
CoarseStepMs == 100

\* The rounds that have ended: without a hit, or with one.
EndedRounds == {NewCombatStats, register_hit(NewCombatStats)}

\* end_game has just shown the outcome of a round; its request is taken.
InitGameOver ==
    /\ InitSessions
    /\ \E stats \in EndedRounds :
           app = end_game(start_game(NewApp(TRUE, 0)), stats, TRUE).app
    /\ InitAppEnv
    /\ InitTraceIdle
    /\ InitStoreIdle
    /\ InitLoopIdle
    /\ InitCallsIdle

\* A click while the outcome is shown.
game_over_click ==
    /\ app.scene.type = "GameOver"
    /\ action_applied(Act("MouseClick"), FALSE)

\* A tick of the render loop while the outcome is shown.
game_over_tick ==
    /\ app.scene.type = "GameOver"
    /\ tick_applied

\* Time passes while the outcome is shown.
game_over_time_passes(dt) ==
    /\ app.scene.type = "GameOver"
    /\ advance_time(dt)

NextGameOver ==
    \/ game_over_click
    \/ game_over_tick
    \/ \E dt \in {FineStepMs, CoarseStepMs} : game_over_time_passes(dt)

SpecGameOver == InitGameOver /\ [][NextGameOver]_vars

\* C36: a click applied in GameOver less than the cooldown after the scene
\* was entered leaves the scene as it is; one applied at or after the
\* cooldown changes the scene to Menu.
C36_ClickAfterCooldown ==
    [][game_over_click =>
         IF app.last_scene_change < GAME_OVER_COOLDOWN_MS
         THEN app'.scene = app.scene
         ELSE app'.scene = MenuScene]_vars

\* Witness of C36: a click has led to Menu.
C36_Witness ==
    /\ app.scene.type = "Menu"
    /\ app.last_scene_change = 0

\* The last moment at which a click is still ignored.
C36_JustBeforeCooldown ==
    /\ app.scene.type = "GameOver"
    /\ app.last_scene_change = GAME_OVER_COOLDOWN_MS - 1

\* ------------------------------------------------ claims on the identity cap
\* The fingerprints that have an identity.
Known(r) == {u.fingerprint : u \in r.users}

\* C37: the store never holds more identities than the cap; and
\* fetch-or-create of a fingerprint that has an identity succeeds with
\* that identity and changes nothing, at the cap too.
C37_CapKept ==
    /\ [](Cardinality(repo.users) <= MaxUsers)
    /\ [](\A u \in repo.users, victim \in UserIds(repo) \cup {0} :
            LET res == get_or_create_user_context(repo, u.fingerprint,
                                                  victim, today)
            IN res.ok /\ res.repo = repo /\ res.ctx.id = u.id)
    /\ [][(HandleStep /\ InHand.kind = "GetOrCreateUser"
            /\ InHand.fingerprint \in Known(repo))
           => (repo' = repo /\ worker'.ok)]_vars

\* Witness of C37: the store is at the cap after an identity was evicted
\* for another, and a fetch-or-create has been handled since.
C37_Witness ==
    /\ Cardinality(repo.users) = MaxUsers
    /\ repo.next_id = MaxUsers + 2
    /\ worker.handled = MaxStoreReqs
    /\ worker.ok

\* C38: fetch-or-create of a fingerprint without an identity, when the
\* store is below the cap or holds an identity that can be evicted,
\* succeeds and creates the identity under the placeholder name with no
\* score, whatever names the other identities carry.
C38_CreateAlwaysSucceeds ==
    [][(HandleStep /\ InHand.kind = "GetOrCreateUser"
         /\ InHand.fingerprint \notin Known(repo)
         /\ (Cardinality(repo.users) < MaxUsers
             \/ eviction_candidates(repo) # {}))
        => /\ worker'.ok
           /\ \E n \in repo'.users :
                 /\ n.fingerprint = InHand.fingerprint
                 /\ n.username = DEFAULT_NAME
                 /\ high_score_or_zero(repo', n.id) = 0]_vars

\* ------------------------------------------- claims on logins and the registry
\* C39: a login that has failed has changed nothing for the others: the
\* registry does not hold its handle and no session was displaced by it.
C39_FailedLoginLeavesRegistry ==
    \A c \in Conns :
        pc[c] = "failed" =>
            /\ \A f \in FPs : active_sessions[f] # c
            /\ old_session[c] = NoSession

\* The session's render task has ended.
TaskEnded(c) == pc[c] \in {"guard_data", "guard_close", "finished"}

\* C40: every entry of the registry refers to a session whose task has
\* not ended.
C40_RegistryHoldsLiveSessions ==
    \A f \in FPs :
        active_sessions[f] # NoSession => ~TaskEnded(active_sessions[f])

====
